---- MODULE Spec2Model ----
(***************************************************************************)
(* A model of pasc.py (wawzat/purpleair-data-tools): the batch pipeline    *)
(* that combines PurpleAir sensor exports, reconciles the A and B          *)
(* channels, computes the PM2.5 index and summarizes the result.           *)
(*                                                                         *)
(* Five specifications share the variables:                               *)
(*   Spec      the run as main drives it: argument and input-file checks,  *)
(*             the per-file loader of combine_primary (parse_path, the     *)
(*             sort-then-zip header rename) and its exits;                 *)
(*   SpecData  the tables of combine_primary: the A/B join, the channel    *)
(*             filter, the averages, Ipm25;                                *)
(*   SpecSum   summarize on the table combine_primary returned: the        *)
(*             summary interval, the interval guard, the output files;     *)
(*   SpecRef   combine_reference and summarize after combine_primary: the  *)
(*             station file, the reference rows, the summary rows, the     *)
(*             wind columns and the RETIGO rows;                           *)
(*   SpecAqi   calc_aqi applied to every concentration of a range.         *)
(*                                                                         *)
(* Concentrations are integers in hundredths of a ug/m3 (10.25 is 1025),   *)
(* so that the mean of two one-decimal readings is exact.  A cell of a     *)
(* table is <<x>> for the number x and <<>> for NaN.                       *)
(***************************************************************************)
EXTENDS Integers, Sequences, FiniteSets, TLC

VARIABLES
    pc,          \* position of the run
    argv,        \* the command line as typed
    args,        \* the parsed command line (get_arguments)
    dir,         \* the data directory: the input files found there
    filesRead,   \* the input files combine_primary has read
    written,     \* the output files written by this run
    diag,        \* the diagnostic printed when the run exits on an error
    grids,       \* the four 5-minute channel grids (primary a, b; secondary a, b)
    joined,      \* df_combined_all: the keys of the joined table
    df_filtered, \* the reconciled table returned by combine_primary
    guard,       \* what summarize's interval guard compared
    pm,          \* SpecAqi: the concentration handed to calc_aqi
    ipm,         \* SpecAqi: what calc_aqi returned
    date_range,  \* min_date and max_date returned by combine_primary
    ref_files,   \* the reference-station and DSKY files of the data directory
    station_merged, \* <station>_station_merged.csv as combine_reference wrote it
    df3,         \* the summary rows of summarize (df_summary)
    retigo,      \* the rows of combined_summarized_retigo.csv
    actual_fieldnames, \* the header of the file being read, in file order
    rename_columns,    \* the renaming (fieldnames_dict) made for that header
    concatenated,      \* a channel's concatenated source rows (pd.concat(li))
    resampled          \* the channel's table after groupby('Sensor').resample('5T')

vars == <<pc, argv, args, dir, filesRead, written, diag, grids, joined,
          df_filtered, guard, pm, ipm, date_range, ref_files, station_merged,
          df3, retigo, actual_fieldnames, rename_columns, concatenated,
          resampled>>

\* What only combine_reference and summarize change.
refvars == <<ref_files, station_merged, df3, retigo>>

\* What only the reading of one header changes.
hdrvars == <<actual_fieldnames, rename_columns>>

\* No header is being read.
NoHeader == actual_fieldnames = <<>> /\ rename_columns = <<>>

\* What only the 5-minute aggregation of one channel changes.
aggvars == <<concatenated, resampled>>

\* No channel is being aggregated.
NoChannel == concatenated = {} /\ resampled = {}

\* A missing value (numpy.nan) in a cell of a table.
NaN == <<>>

IsNaN(c) == c = NaN

\* The diagnostic of an exit: the message printed, the text of the exception
\* caught, and the column names that text lists.
NoDiag == [msg |-> "", detail |-> "", names |-> {}]

Diag(m) == [msg |-> m, detail |-> "", names |-> {}]

----------------------------------------------------------------------------
(* calc_aqi                                                                *)

\* A plausible slip: the 'beyond_aqi' row restarting the hazardous index range
\* at 500.5 instead of repeating the hazardous breakpoints.
pm25_aqi_beyond_restart ==
    [ good       |-> [Ilow |-> 0,   Ihigh |-> 50,  Clow |-> 0,    Chigh |-> 120],
      moderate   |-> [Ilow |-> 51,  Ihigh |-> 100, Clow |-> 121,  Chigh |-> 354],
      sensitive  |-> [Ilow |-> 101, Ihigh |-> 150, Clow |-> 355,  Chigh |-> 554],
      unhealthy  |-> [Ilow |-> 151, Ihigh |-> 200, Clow |-> 555,  Chigh |-> 1504],
      very       |-> [Ilow |-> 201, Ihigh |-> 300, Clow |-> 1505, Chigh |-> 2504],
      hazardous  |-> [Ilow |-> 301, Ihigh |-> 500, Clow |-> 2505, Chigh |-> 5004],
      beyond_aqi |-> [Ilow |-> 301, Ihigh |-> 500, Clow |-> 5005, Chigh |-> 7504] ]

\* The breakpoint table pm25_aqi; concentrations in tenths of a ug/m3.
pm25_aqi ==
    [ good       |-> [Ilow |-> 0,   Ihigh |-> 50,  Clow |-> 0,    Chigh |-> 120],
      moderate   |-> [Ilow |-> 51,  Ihigh |-> 100, Clow |-> 121,  Chigh |-> 354],
      sensitive  |-> [Ilow |-> 101, Ihigh |-> 150, Clow |-> 355,  Chigh |-> 554],
      unhealthy  |-> [Ilow |-> 151, Ihigh |-> 200, Clow |-> 555,  Chigh |-> 1504],
      very       |-> [Ilow |-> 201, Ihigh |-> 300, Clow |-> 1505, Chigh |-> 2504],
      hazardous  |-> [Ilow |-> 301, Ihigh |-> 500, Clow |-> 2505, Chigh |-> 5004],
      beyond_aqi |-> [Ilow |-> 301, Ihigh |-> 500, Clow |-> 2505, Chigh |-> 5004] ]

\* A plausible slip: the concentration rounded to one decimal place.
TruncateRounded(PM2_5) ==
    LET t == (PM2_5 + 5) \div 10
    IN  IF t < 0 THEN 0 ELSE t

\* int(PM2_5 * 10): the concentration (hundredths) truncated toward zero to
\* tenths, then the clamp of negative values to 0.
Truncate(PM2_5) ==
    LET t == IF PM2_5 >= 0 THEN PM2_5 \div 10 ELSE -((-PM2_5) \div 10)
    IN  IF t < 0 THEN 0 ELSE t

\* The if/elif chain selecting aqi_cat for a truncated concentration (tenths);
\* "none" is the final else branch, which leaves aqi_cat unassigned.
AqiCat(t) ==
    IF 0 <= t /\ t <= 120 THEN "good"
    ELSE IF 121 <= t /\ t <= 354 THEN "moderate"
    ELSE IF 355 <= t /\ t <= 554 THEN "sensitive"
    ELSE IF 555 <= t /\ t <= 1504 THEN "unhealthy"
    ELSE IF 1505 <= t /\ t <= 2504 THEN "very"
    ELSE IF 2505 <= t /\ t <= 5004 THEN "hazardous"
    ELSE IF t >= 5005 THEN "beyond_aqi"
    ELSE "none"

\* Python 3's round() of num/den (den > 0, num >= 0): to nearest, a tie to even.
Round(num, den) ==
    LET q == num \div den
        r == num % den
    IN  IF 2 * r > den \/ (2 * r = den /\ q % 2 = 1) THEN q + 1 ELSE q

\* A plausible slip: Ilow and Ihigh swapped when reading the breakpoint row.
InterpolateSwapped(c, t) ==
    Round((c.Ilow - c.Ihigh) * (t - c.Clow) + c.Ihigh * (c.Chigh - c.Clow),
          c.Chigh - c.Clow)

\* The interpolation (Ihigh - Ilow) / (Chigh - Clow) * (PM2_5 - Clow) + Ilow,
\* rounded.  The code evaluates it in IEEE-754 doubles: of the ties of the
\* table (0.6, 1.8, ..., 11.4, all in "good") the float product misses one,
\* (50 / 12) * 5.4 = 22.500000000000004, which rounds to 23 and not to 22.
Interpolate(c, t) ==
    IF c.Ilow = 0 /\ c.Chigh = 120 /\ t = 54 THEN 23
    ELSE Round((c.Ihigh - c.Ilow) * (t - c.Clow) + c.Ilow * (c.Chigh - c.Clow),
               c.Chigh - c.Clow)

\* A plausible slip: the index capped at the top of the scale.
CalcAqiCapped(PM2_5) ==
    LET t   == Truncate(PM2_5)
        cat == AqiCat(t)
    IN  IF cat = "none" THEN -1
        ELSE LET i == Interpolate(pm25_aqi[cat], t)
             IN  IF i > 500 THEN 500 ELSE i

\* calc_aqi(PM2_5) for a number PM2_5 (hundredths).  -1 stands for the
\* exception the fall-through branch ends in (aqi_cat is unbound).
CalcAqi(PM2_5) ==
    LET t   == Truncate(PM2_5)
        cat == AqiCat(t)
    IN  IF cat = "none" THEN -1
        ELSE Interpolate(pm25_aqi[cat], t)

----------------------------------------------------------------------------
(* The channel grids: the input of the dual-channel part of combine_primary *)

Sensors == {"S1", "S2"}

\* The 5-minute slots of the grids are 0..MaxSlot; slot s is the timestamp
\* SlotSeconds * s.
MaxSlot == 1

Slots == 0..MaxSlot

Keys == Sensors \X Slots

\* resample('5T'): the grid's step in seconds.
SlotSeconds == 300

\* The columns aggregated by mean that the A and B channels pair, per kind
\* (the canonical names, before the _a/_b/_as/_bs suffix).
PrimaryPaired ==
    {"PM1.0_CF1_ug/m3", "PM2.5_CF1_ug/m3", "PM10.0_CF1_ug/m3", "PM2.5_ATM_ug/m3"}

SecondaryPaired ==
    {">=0.3um/dl", ">=0.5um/dl", ">=1.0um/dl", ">=2.5um/dl", ">=5.0um/dl",
     ">=10.0um/dl", "PM1.0_ATM_ug/m3", "PM10_ATM_ug/m3"}

\* A row of a primary grid with the given PM2.5 readings (hundredths).
PrimaryRow(atm, cf1) ==
    [present |-> TRUE,
     v |-> [c \in PrimaryPaired |->
               IF c = "PM2.5_ATM_ug/m3" THEN <<atm>>
               ELSE IF c = "PM2.5_CF1_ug/m3" THEN <<cf1>>
               ELSE <<cf1 + 100>>]]

SecondaryRow(x) == [present |-> TRUE, v |-> [c \in SecondaryPaired |-> <<x>>]]

\* A row of a grid whose slot had no value to average: resample('5T').agg
\* yields NaN for an empty bin between a sensor's first and last observation,
\* and for a bin whose source cells are all empty.
NaNRow(cols) == [present |-> TRUE, v |-> [c \in cols |-> NaN]]

\* No row for the key in the grid.
Absent(cols) == [present |-> FALSE, v |-> [c \in cols |-> NaN]]

\* What one (sensor, slot) holds in the four grids.  Each case is one
\* situation the reconciler has to handle.
Cases ==
    [ none    |-> [pa |-> Absent(PrimaryPaired), pb |-> Absent(PrimaryPaired),
                   sa |-> Absent(SecondaryPaired), sb |-> Absent(SecondaryPaired)],
      agree   |-> [pa |-> PrimaryRow(1000, 1000), pb |-> PrimaryRow(1050, 1000),
                   sa |-> SecondaryRow(400), sb |-> SecondaryRow(600)],
      atm_abs |-> [pa |-> PrimaryRow(1000, 1000), pb |-> PrimaryRow(2000, 1000),
                   sa |-> SecondaryRow(400), sb |-> SecondaryRow(600)],
      cf1_rel |-> [pa |-> PrimaryRow(100, 100), pb |-> PrimaryRow(100, 300),
                   sa |-> SecondaryRow(400), sb |-> SecondaryRow(600)],
      cf1_abs |-> [pa |-> PrimaryRow(10000, 10000), pb |-> PrimaryRow(10000, 10500),
                   sa |-> SecondaryRow(400), sb |-> SecondaryRow(600)],
      only_a  |-> [pa |-> PrimaryRow(1000, 1000), pb |-> Absent(PrimaryPaired),
                   sa |-> SecondaryRow(400), sb |-> SecondaryRow(600)],
      only_bs |-> [pa |-> PrimaryRow(1000, 1000), pb |-> PrimaryRow(1050, 1000),
                   sa |-> Absent(SecondaryPaired), sb |-> SecondaryRow(600)],
      sec_nan |-> [pa |-> PrimaryRow(5000, 5000), pb |-> PrimaryRow(5020, 5000),
                   sa |-> NaNRow(SecondaryPaired), sb |-> SecondaryRow(600)],
      atm_nan |-> [pa |-> [PrimaryRow(0, 1000) EXCEPT !.v["PM2.5_ATM_ug/m3"] = NaN],
                   pb |-> [PrimaryRow(0, 1000) EXCEPT !.v["PM2.5_ATM_ug/m3"] = NaN],
                   sa |-> SecondaryRow(400), sb |-> SecondaryRow(600)] ]

CaseNames == DOMAIN Cases

GridOf(cs, ch) == [k \in Keys |-> Cases[cs[k]][ch]]

\* The keys a grid has a row for.
Present(g) == {k \in Keys : g[k].present}

----------------------------------------------------------------------------
(* combine_primary: the join, the channel filter, the averages, Ipm25      *)

\* A plausible slip: how='outer' keeps the keys of either side.
MergeOuter(left, right) == left \cup right

\* DataFrame.merge(on=['Sensor', 'DateTime_UTC'], how='inner') on the keys of
\* two tables whose keys are unique: the keys present in both.
Merge(left, right) == left \cap right

Abs(x) == IF x < 0 THEN -x ELSE x

\* (a - b).abs() < 5.0 ; a comparison with NaN is False.
AbsOk(a, b) == ~IsNaN(a) /\ ~IsNaN(b) /\ Abs(a[1] - b[1]) < 500

\* (a - b).abs() / ((a + b + .00001) / 2) < 0.7, in hundredths: with d = |a-b|
\* and s = a + b the quotient is d / ((s + 0.001) / 2), and for s + 0.001 > 0
\* it is below 0.7 exactly when 1000 * d < 350 * s + 0.35, that is when
\* 1000 * d <= 350 * s (both sides are integers).  A negative denominator makes
\* the quotient <= 0.
RelOk(a, b) ==
    /\ ~IsNaN(a)
    /\ ~IsNaN(b)
    /\ IF a[1] + b[1] >= 0
       THEN 1000 * Abs(a[1] - b[1]) <= 350 * (a[1] + b[1])
       ELSE TRUE

\* The four filter statements.  The third starts again from df_combined_all,
\* so the result of the two PM2.5_ATM statements is overwritten.
ChannelFilter(g, all) ==
    LET atm(ch, k) == ch[k].v["PM2.5_ATM_ug/m3"]
        cf1(ch, k) == ch[k].v["PM2.5_CF1_ug/m3"]
        f1 == {k \in all : AbsOk(atm(g.pa, k), atm(g.pb, k))}
        f2 == {k \in f1 : RelOk(atm(g.pa, k), atm(g.pb, k))}
        f3 == {k \in all : AbsOk(cf1(g.pa, k), cf1(g.pb, k))}
        f4 == {k \in f3 : RelOk(cf1(g.pa, k), cf1(g.pb, k))}
    IN  f4

\* DataFrame[[x, y]].mean(axis=1): NaN cells are skipped (skipna), the mean of
\* no cell is NaN.
RowMean(a, b) ==
    IF IsNaN(a) /\ IsNaN(b) THEN NaN
    ELSE IF IsNaN(a) THEN b
    ELSE IF IsNaN(b) THEN a
    ELSE <<(a[1] + b[1]) \div 2>>

\* The *_avg columns of one surviving key, under their final names.
Averages(g, k) ==
    [c \in PrimaryPaired \cup SecondaryPaired |->
        IF c \in PrimaryPaired
        THEN RowMean(g.pa[k].v[c], g.pb[k].v[c])
        ELSE RowMean(g.sa[k].v[c], g.sb[k].v[c])]

\* The order of sort_values(['Sensor', 'DateTime_UTC']).
SensorOrder == <<"S1", "S2">>

KeyAt(i) == <<SensorOrder[((i - 1) \div (MaxSlot + 1)) + 1], (i - 1) % (MaxSlot + 1)>>

SortedKeys(S) ==
    SelectSeq([i \in 1..(Len(SensorOrder) * (MaxSlot + 1)) |-> KeyAt(i)],
              LAMBDA k : k \in S)

\* One record of the reconciled table: Ipm25 is calc_aqi of the row's own
\* PM2.5_ATM_ug/m3_avg (the rolling('24H') line is commented out).
RecordOf(g, k) ==
    LET avg == Averages(g, k)
    IN  [Sensor |-> k[1], DateTime_UTC |-> SlotSeconds * k[2], val |-> avg,
         Ipm25 |-> CalcAqi(avg["PM2.5_ATM_ug/m3"][1])]

\* df_combined_all: the primary a/b join, the secondary a/b join, and the
\* join of the two.
JoinedKeys(g) ==
    LET primary_ab   == Merge(Present(g.pa), Present(g.pb))
        secondary_ab == Merge(Present(g.sa), Present(g.sb))
    IN  Merge(primary_ab, secondary_ab)

Hour == 3600

\* Timestamp.floor('h') and Timestamp.ceil('h')
floor_h(t) == (t \div Hour) * Hour

ceil_h(t) == ((t + Hour - 1) \div Hour) * Hour

\* min() of no timestamp is NaT
NoRange == [min_date |-> NaN, max_date |-> NaN]

\* date_range, as the last of the four loaders (secondary b) leaves it: the
\* first timestamp floored and the last one raised to the hour.
DateRange(times) ==
    IF times = {} THEN NoRange
    ELSE [min_date |-> <<floor_h(CHOOSE t \in times : \A u \in times : t <= u)>>,
          max_date |-> <<ceil_h(CHOOSE t \in times : \A u \in times : t >= u)>>]

\* The tail of combine_primary, from the joins to the return.  int(NaN * 10)
\* in calc_aqi raises ValueError outside its try, which combine_primary's
\* except turns into exit.  What DataFrame.apply assigns for a table with no
\* row depends on the pandas release: both outcomes are kept.
CombinePrimaryTables ==
    /\ pc = "aggregated"
    /\ LET all  == JoinedKeys(grids)
           keep == ChannelFilter(grids, all)
           keys == SortedKeys(keep)
       IN  /\ joined' = all
           /\ \/ /\ \A k \in keep : ~IsNaN(Averages(grids, k)["PM2.5_ATM_ug/m3"])
                 /\ keep # {}
                 /\ IF args.full /\ ~(args.reference \/ args.wind)
                    THEN \* combined_full.csv is opened, then the name
                         \* df_combined_primary is not bound: NameError
                         /\ written' = written \cup {"combined_full_ab.csv",
                                                     "combined_full.csv"}
                         /\ df_filtered' = <<>>
                         /\ pc' = "exit"
                         /\ diag' = [msg |-> "error in combine_primary() function",
                                     detail |-> "NameError", names |-> {}]
                    ELSE /\ written' = written \cup {"combined_full_ab.csv"}
                         /\ df_filtered' =
                              [i \in 1..Len(keys) |-> RecordOf(grids, keys[i])]
                         /\ pc' = "combined"
                         /\ diag' = diag
              \/ /\ \/ \E k \in keep : IsNaN(Averages(grids, k)["PM2.5_ATM_ug/m3"])
                    \/ keep = {}
                 /\ df_filtered' = <<>>
                 /\ written' = written
                 /\ pc' = "exit"
                 /\ diag' = Diag("error in combine_primary() function")
    /\ date_range' = DateRange({SlotSeconds * k[2] : k \in Present(grids.sb)})
    /\ UNCHANGED <<argv, args, dir, filesRead, grids, guard, pm, ipm>>
    /\ UNCHANGED refvars
    /\ UNCHANGED <<hdrvars, aggvars>>

----------------------------------------------------------------------------
(* get_summary_interval and summarize's interval guard                     *)

Digits == {"0", "1", "2", "3", "4", "5", "6", "7", "8", "9"}

DigitVal(ch) ==
    CASE ch = "0" -> 0 [] ch = "1" -> 1 [] ch = "2" -> 2 [] ch = "3" -> 3
      [] ch = "4" -> 4 [] ch = "5" -> 5 [] ch = "6" -> 6 [] ch = "7" -> 7
      [] ch = "8" -> 8 [] ch = "9" -> 9

Min(S) == CHOOSE x \in S : \A y \in S : x <= y

\* re.findall(pattern, s)[0] for the patterns (\d+) and (\D+): the first
\* maximal run of characters that are digits (wantDigits) or are not; <<>>
\* when there is none (findall returns an empty list).
FirstRun(s, wantDigits) ==
    LET ok(i) == (s[i] \in Digits) = wantDigits
        idx   == {i \in 1..Len(s) : ok(i)}
    IN  IF idx = {} THEN <<>>
        ELSE LET b     == Min(idx)
                 stops == {j \in b..Len(s) : ~ok(j)}
                 e     == IF stops = {} THEN Len(s) ELSE Min(stops) - 1
             IN  SubSeq(s, b, e)

RECURSIVE ToInt(_)
\* int(x) of a run of digits.
ToInt(run) ==
    IF run = <<>> THEN 0
    ELSE 10 * ToInt(SubSeq(run, 1, Len(run) - 1)) + DigitVal(run[Len(run)])

\* offset_values.get(text, 0)
offset_values(text) ==
    CASE text = <<"W">> -> 6048000
      [] text = <<"T">> -> 60
      [] text = <<"m", "i", "n">> -> 60
      [] text = <<"H">> -> 3600
      [] text = <<"S">> -> 1
      [] text = <<"D">> -> 86400
      [] OTHER -> 0

\* get_summary_interval(args): [ok, sec].  text_part[0] or number_part[0] of
\* an empty list raises IndexError, which the function turns into exit.
get_summary_interval(summary) ==
    LET number_part == FirstRun(summary, TRUE)
        text_part   == FirstRun(summary, FALSE)
    IN  IF number_part = <<>> \/ text_part = <<>>
        THEN [ok |-> FALSE, sec |-> 0]
        ELSE [ok |-> TRUE, sec |-> ToInt(number_part) * offset_values(text_part)]

\* Sensor.str.contains("REF"): the rows of the reference station.
IsRef(sensor) == sensor \in {"NORCO_REF", "ELSI_REF"}

RECURSIVE Sum(_)
Sum(q) == IF q = <<>> THEN 0 ELSE q[1] + Sum(Tail(q))

\* df_interval['delta_seconds'] of the rows that are not reference rows: each
\* row's timestamp minus the timestamp of the row before it in the frame
\* (shift), 0 for the first row (fillna).
Deltas(df) ==
    LET delta(i) == IF i = 1 THEN 0
                    ELSE df[i].DateTime_UTC - df[i - 1].DateTime_UTC
        pos == SelectSeq([i \in 1..Len(df) |-> i], LAMBDA i : ~IsRef(df[i].Sensor))
    IN  [j \in 1..Len(pos) |-> delta(pos[j])]

\* A plausible slip: the mean of the first pass taken as the result.
interval_duration_one_pass(df) ==
    LET d1 == SelectSeq(Deltas(df), LAMBDA d : 10 <= d /\ d <= 36000)
    IN  [sum |-> Sum(d1), n |-> Len(d1)]

\* The two passes of between(...).mean(): [sum, n], the mean being sum / n
\* and NaN when n = 0.  d <= 1.2 * (sum / n) is 5 * d * n <= 6 * sum; a
\* comparison with a NaN mean is False.
interval_duration(df) ==
    LET d1 == SelectSeq(Deltas(df), LAMBDA d : 10 <= d /\ d <= 36000)
        s1 == Sum(d1)
        n1 == Len(d1)
        d2 == SelectSeq(d1, LAMBDA d : n1 > 0 /\ 10 <= d /\ 5 * d * n1 <= 6 * s1)
    IN  [sum |-> Sum(d2), n |-> Len(d2)]

\* A plausible slip: the guard written with < where the code has <=.
GuardStopsStrict(sec, iv) == iv.n > 0 /\ sec * iv.n < iv.sum

\* summary_interval_sec <= interval_duration ; False for a NaN mean.
GuardStops(sec, iv) == iv.n > 0 /\ sec * iv.n <= iv.sum

\* The files summarize writes for an output_type.
SummaryFiles(output_type) ==
    (IF "csv" \in output_type \/ "all" \in output_type
        THEN {"combined_summarized_csv.csv"} ELSE {})
    \cup (IF "xl" \in output_type \/ "all" \in output_type
        THEN {"combined_summarized_xl.xlsx"} ELSE {})
    \cup (IF "retigo" \in output_type \/ "all" \in output_type
        THEN {"combined_summarized_retigo.csv"} ELSE {})

AllSummaryFiles ==
    {"combined_summarized_csv.csv", "combined_summarized_xl.xlsx",
     "combined_summarized_retigo.csv"}

\* The -s arguments tried: "5min", "10min", "1H" (config.summary_default),
\* "H", which has no number, "1min", "1h", whose unit pandas knows and
\* offset_values does not, and "1x", whose unit neither knows.
SummaryArgs ==
    { <<"5", "m", "i", "n">>, <<"1", "0", "m", "i", "n">>, <<"1", "H">>, <<"H">>,
      <<"1", "m", "i", "n">>, <<"1", "h">>, <<"1", "x">> }

\* config.output_default, and two other -o choices
output_default == {"csv", "retigo"}

OutputTypes == {output_default, {"xl"}, {"none"}}

NoGuard == [done |-> FALSE, sec |-> 0, sum |-> 0, n |-> 0]

DataArgs(s, o) ==
    [reference |-> FALSE, wind |-> FALSE, darksky |-> FALSE, full |-> FALSE,
     summary |-> s, output |-> o]

GridsOf(cs) ==
    [pa |-> GridOf(cs, "pa"), pb |-> GridOf(cs, "pb"),
     sa |-> GridOf(cs, "sa"), sb |-> GridOf(cs, "sb")]

----------------------------------------------------------------------------
(* File names, parse_path and the header reconciliation                    *)

\* Python strings are tuples of one-character strings; positions are counted
\* from 0 as in Python.
Max(S) == CHOOSE x \in S : \A y \in S : x >= y

LowerCase == <<"a", "b", "c", "d", "e", "f", "g", "h", "i", "j", "k", "l", "m", "n", "o", "p", "q", "r", "s", "t", "u", "v", "w", "x", "y", "z">>

UpperCase == <<"A", "B", "C", "D", "E", "F", "G", "H", "I", "J", "K", "L", "M", "N", "O", "P", "Q", "R", "S", "T", "U", "V", "W", "X", "Y", "Z">>

Upper(ch) ==
    IF \E i \in 1..Len(LowerCase) : LowerCase[i] = ch
    THEN UpperCase[CHOOSE i \in 1..Len(LowerCase) : LowerCase[i] = ch]
    ELSE ch

UpperStr(s) == [i \in 1..Len(s) |-> Upper(s[i])]

\* str.strip()
Strip(s) ==
    LET keep == {i \in 1..Len(s) : s[i] # " "}
    IN  IF keep = {} THEN <<>> ELSE SubSeq(s, Min(keep), Max(keep))

\* s[a:b] for a, b >= 0
Slice(s, a, b) == SubSeq(s, a + 1, IF b < Len(s) THEN b ELSE Len(s))

\* s.index(ch, start); -1 stands for the ValueError of a character not found
Index(s, ch, start) ==
    LET st  == IF start >= 0 THEN start
               ELSE IF start + Len(s) > 0 THEN start + Len(s) ELSE 0
        idx == {i \in st..(Len(s) - 1) : s[i + 1] = ch}
    IN  IF idx = {} THEN -1 ELSE Min(idx)

csv_full_path == <<"/", "d", "/">>

parse_path(filename, path) ==
    LET spc          == Index(filename, " ", 0)
        dot          == Index(filename, ".", 0)
        open_paren   == Index(filename, "(", dot - 4)
        closed_paren == Index(filename, ")", dot - 4)
        parsed       == Strip(Slice(filename, open_paren + 1, closed_paren))
        spc2         == Index(parsed, " ", 0)
    IN  IF spc >= 0 /\ dot >= 0 /\ open_paren >= 0 /\ closed_paren >= 0 /\ spc2 >= 0
        THEN [tag_number |-> UpperStr(Strip(Slice(filename, Len(path), spc))),
              LAT_coord  |-> Strip(Slice(parsed, 0, spc2)),
              LON_coord  |-> Strip(Slice(parsed, spc2, Len(parsed))),
              fallback   |-> FALSE]
        ELSE [tag_number |-> Strip(Slice(filename, Len(path), Len(path) + 7)),
              LAT_coord  |-> <<>>,
              LON_coord  |-> <<>>,
              fallback   |-> TRUE]

\* Whether float(s) returns: an optional sign, then digits with at most one
\* point (exponents, "inf" and "nan" do not occur in the names tried).
FloatOk(s) ==
    LET t    == Strip(s)
        body == IF t # <<>> /\ t[1] \in {"+", "-"} THEN Tail(t) ELSE t
    IN  /\ body # <<>>
        /\ \A i \in 1..Len(body) : body[i] \in Digits \cup {"."}
        /\ Cardinality({i \in 1..Len(body) : body[i] = "."}) <= 1
        /\ \E i \in 1..Len(body) : body[i] \in Digits

pa_version4_a ==
    {"created_at", "entry_id", "PM1.0_CF1_ug/m3", "PM2.5_CF1_ug/m3",
     "PM10.0_CF1_ug/m3", "UptimeMinutes", "RSSI_dbm", "Temperature_F",
     "Humidity_%", "PM2.5_ATM_ug/m3"}

pa_version4_b ==
    {"created_at", "entry_id", "PM1.0_CF1_ug/m3", "PM2.5_CF1_ug/m3",
     "PM10.0_CF1_ug/m3", "Free_Mem", "ADC", "Pressure_hpa", "IAQ",
     "PM2.5_ATM_ug/m3"}

pa_version4_as ==
    {"created_at", "entry_id", ">=0.3um/dl", ">=0.5um/dl", ">=1.0um/dl",
     ">=2.5um/dl", ">=5.0um/dl", ">=10.0um/dl", "PM1.0_ATM_ug/m3",
     "PM10_ATM_ug/m3"}

pa_version4_bs == pa_version4_as

\* sorted() of every header name that occurs, in Python's string order.
HeaderOrder ==
    <<">=0.3um/dl", ">=0.5um/dl", ">=1.0um/dl", ">=10.0um/dl", ">=2.5um/dl",
      ">=5.0um/dl", "AAA", "ADC", "Free_Mem", "Humidity_%", "IAQ",
      "PM1.0_ATM_ug/m3", "PM1.0_CF1_ug/m3", "PM10.0_CF1_ug/m3",
      "PM10_ATM_ug/m3", "PM2.5_ATM_ug/m3", "PM2.5_CF1_ug/m3", "Pressure_hpa",
      "RH_%", "RSSI_dbm", "Temperature_F", "UptimeMinutes", "created_at",
      "entry_id">>

Rank ==
    [h \in {HeaderOrder[i] : i \in 1..Len(HeaderOrder)} |->
        CHOOSE i \in 1..Len(HeaderOrder) : HeaderOrder[i] = h]

\* The place (from 1) of h in sorted(S), and the name at place i of it.
PlaceIn(S, h) == Cardinality({g \in S : Rank[g] < Rank[h]}) + 1

AtPlace(S, i) == CHOOSE h \in S : PlaceIn(S, h) = i

\* dict(zip(sorted(actual), sorted(canonical))) and DataFrame.rename: the
\* label a column named h carries after the renaming.
fieldnames_dict(actual, canonical, h) ==
    LET i == PlaceIn(actual, h)
    IN  IF i <= Cardinality(canonical) THEN AtPlace(canonical, i) ELSE h

\* The four file families: the glob pattern *word*suffix, the canonical
\* header list, and the families whose tables the join at the end of the
\* family's block refers to.
Families == <<"pa", "pb", "sa", "sb">>

Pattern ==
    [pa |-> [word |-> <<"P", "r", "i", "m", "a", "r", "y">>, suffix |-> <<"_", "a", ".", "c", "s", "v">>],
     pb |-> [word |-> <<"P", "r", "i", "m", "a", "r", "y">>, suffix |-> <<"_", "b", ".", "c", "s", "v">>],
     sa |-> [word |-> <<"S", "e", "c", "o", "n", "d", "a", "r", "y">>, suffix |-> <<"_", "a", ".", "c", "s", "v">>],
     sb |-> [word |-> <<"S", "e", "c", "o", "n", "d", "a", "r", "y">>, suffix |-> <<"_", "b", ".", "c", "s", "v">>]]

Canonical ==
    [pa |-> pa_version4_a, pb |-> pa_version4_b,
     sa |-> pa_version4_as, sb |-> pa_version4_bs]

\* A plausible slip: every block guarded so that it needs no earlier table.
JoinNeedsNothing ==
    [pa |-> {}, pb |-> {}, sa |-> {}, sb |-> {}]

\* The tables of earlier blocks each block merges with: Primary B with
\* Primary A, Secondary B with Secondary A and the primary a/b join.
JoinNeeds ==
    [pa |-> {}, pb |-> {"pa"}, sa |-> {}, sb |-> {"pa", "pb", "sa"}]

\* glob: the name holds word, and after it ends with suffix
Matches(name, pat) ==
    LET w == pat.word
        s == pat.suffix
    IN  /\ Len(name) >= Len(w) + Len(s)
        /\ SubSeq(name, Len(name) - Len(s) + 1, Len(name)) = s
        /\ \E i \in 1..(Len(name) - Len(s) - Len(w) + 1) :
              SubSeq(name, i, i + Len(w) - 1) = w

\* The file names tried.
Headers ==
    [canonical |-> pa_version4_a,
     renamed   |-> (pa_version4_a \ {"Humidity_%"}) \cup {"RH_%"},
     added     |-> pa_version4_a \cup {"AAA"},
     removed   |-> pa_version4_a \ {"entry_id"}]

File(name, headers, empty) == [name |-> name, headers |-> headers, empty |-> empty]

Stem == [S1 |-> <<"s", "1", " ", "(", "3", ".", "5", " ", "-", "7", ".", "5", ")", " ">>, S2 |-> <<"s", "2", " ", "(", "3", ".", "5", " ", "-", "7", ".", "5", ")", " ">>]

NoSpaceStem == <<"s", "1", "_">>

NoParenStem == <<"s", "1", " ">>

Tail_ ==
    [pa |-> <<"P", "r", "i", "m", "a", "r", "y", "_", "a", ".", "c", "s", "v">>, pb |-> <<"P", "r", "i", "m", "a", "r", "y", "_", "b", ".", "c", "s", "v">>,
     sa |-> <<"S", "e", "c", "o", "n", "d", "a", "r", "y", "_", "a", ".", "c", "s", "v">>, sb |-> <<"S", "e", "c", "o", "n", "d", "a", "r", "y", "_", "b", ".", "c", "s", "v">>]

Regular(s, fam) == File(Stem[s] \o Tail_[fam], Canonical[fam], FALSE)

Candidates ==
    [pa |-> {Regular(s, "pa") : s \in Sensors}
            \cup {File(Stem.S1 \o Tail_.pa, Headers[h], FALSE) :
                     h \in {"renamed", "added", "removed"}}
            \cup {File(Stem.S1 \o Tail_.pa, pa_version4_a, TRUE),
                  File(NoSpaceStem \o Tail_.pa, pa_version4_a, FALSE)},
     pb |-> {Regular(s, "pb") : s \in Sensors},
     sa |-> {Regular(s, "sa") : s \in Sensors},
     sb |-> {Regular(s, "sb") : s \in Sensors}
            \cup {File(NoParenStem \o Tail_.sb, pa_version4_bs, FALSE)}]

AllNames == {f.name : f \in UNION {Candidates[fam] : fam \in DOMAIN Candidates}}

\* glob.glob of a family's pattern, over the names tried
Globbed == [fam \in DOMAIN Pattern |-> {n \in AllNames : Matches(n, Pattern[fam])}]

FamilyFiles(d, fam) == {f \in d.files : f.name \in Globbed[fam]}

NoError == [detail |-> "", names |-> {}]

\* The body of a loader's loop for one file: "skip" for an empty file, "ok"
\* when the frame is appended, otherwise the exception raised.  The only
\* column of strings is the one read under the header created_at.
ProcessFile(f, fam) ==
    LET p       == parse_path(csv_full_path \o f.name, csv_full_path)
        label(h) == fieldnames_dict(f.headers, Canonical[fam], h)
        created == {h \in f.headers : label(h) = "created_at"}
        labels  == {label(h) : h \in f.headers}
    IN  IF f.empty
        THEN [result |-> "skip", err |-> NoError, tag |-> p.tag_number, labels |-> {}]
        ELSE IF created = {}
        THEN [result |-> "error", tag |-> p.tag_number, labels |-> labels,
              err |-> [detail |-> "KeyError", names |-> {"created_at"}]]
        ELSE IF created # {"created_at"}
        THEN [result |-> "error", tag |-> p.tag_number, labels |-> labels,
              err |-> [detail |-> "'int' object has no attribute 'rstrip'",
                       names |-> {}]]
        ELSE IF ~FloatOk(p.LAT_coord) \/ ~FloatOk(p.LON_coord)
        THEN [result |-> "error", tag |-> p.tag_number, labels |-> labels,
              err |-> [detail |-> "could not convert string to float: ''",
                       names |-> {}]]
        ELSE [result |-> "ok", err |-> NoError, tag |-> p.tag_number,
              labels |-> labels]

Processed ==
    [fam \in DOMAIN Candidates |->
        [f \in Candidates[fam] |-> ProcessFile(f, fam)]]

\* A loader's block for one family, the files taken in any order (glob's
\* order is the directory's): the loop stops at the first file that raises,
\* having read any of the files that do not; after the loop pd.concat raises
\* on an empty list and df[cols] on a canonical label no frame carries.
FamilyOutcomes(d, fam) ==
    LET files    == FamilyFiles(d, fam)
        bad      == {f \in files : Processed[fam][f].result = "error"}
        appended == {f \in files : Processed[fam][f].result = "ok"}
        labels   == UNION {Processed[fam][f].labels : f \in appended}
        missing  == Canonical[fam] \ labels
    IN  { [ok |-> FALSE, read |-> G \cup {f}, err |-> Processed[fam][f].err,
           tags |-> {}] : f \in bad, G \in SUBSET (files \ bad) }
        \cup
        (IF bad # {} THEN {}
         ELSE IF appended = {}
         THEN {[ok |-> FALSE, read |-> files, tags |-> {},
                err |-> [detail |-> "No objects to concatenate", names |-> {}]]}
         ELSE IF missing # {}
         THEN {[ok |-> FALSE, read |-> files, tags |-> {},
                err |-> [detail |-> "not in index", names |-> missing]]}
         ELSE {[ok |-> TRUE, read |-> files, err |-> NoError,
                tags |-> {Processed[fam][f].tag : f \in appended}]})

NoTags == [fam \in {"pa", "pb", "sa", "sb"} |-> {}]

\* One family's block after the outcome p of the blocks before it: skipped
\* when the glob finds no file (the else of the last block raises instead),
\* and ended by its join, which raises NameError on a table never built.
LoadStep(d, p, fam) ==
    IF ~p.ok THEN {p}
    ELSE IF FamilyFiles(d, fam) = {}
    THEN IF fam = "sb"
         THEN {[p EXCEPT !.ok = FALSE,
                         !.err = [detail |-> "required csv files not found",
                                  names |-> {}]]}
         ELSE {p}
    ELSE { IF ~o.ok
           THEN [p EXCEPT !.ok = FALSE, !.read = p.read \cup o.read, !.err = o.err]
           ELSE IF ~(JoinNeeds[fam] \subseteq p.built)
           THEN [p EXCEPT !.ok = FALSE, !.read = p.read \cup o.read,
                          !.err = [detail |-> "NameError", names |-> {}]]
           ELSE [p EXCEPT !.read = p.read \cup o.read,
                          !.built = p.built \cup {fam},
                          !.tags = [p.tags EXCEPT ![fam] = o.tags]]
           : o \in FamilyOutcomes(d, fam) }

RECURSIVE LoadFrom(_, _, _)
LoadFrom(d, P, i) ==
    IF i > Len(Families) THEN P
    ELSE LoadFrom(d, UNION {LoadStep(d, p, Families[i]) : p \in P}, i + 1)

LoadOutcomes(d) ==
    LoadFrom(d, {[ok |-> TRUE, read |-> {}, err |-> NoError, built |-> {},
                  tags |-> NoTags]}, 1)

\* The tag_number under which a sensor's rows are keyed.
SensorTag == [S1 |-> <<"S", "1">>, S2 |-> <<"S", "2">>]

\* The grids the loaded files give: a sensor has rows in a family's grid only
\* when a file of the family was loaded under the sensor's tag.
GridsFor(cs, tags) ==
    LET g == GridsOf(cs)
        restrict(fam, ch) ==
            [k \in Keys |-> IF SensorTag[k[1]] \in tags[fam] THEN g[ch][k]
                            ELSE [present |-> FALSE, v |-> g[ch][k].v]]
    IN  [pa |-> restrict("pa", "pa"), pb |-> restrict("pb", "pb"),
         sa |-> restrict("sa", "sa"), sb |-> restrict("sb", "sb")]

RunCases == {"agree", "atm_abs"}

\* combine_primary up to the four aggregated grids.
LoadChannels ==
    /\ pc = "proceed"
    /\ \E o \in LoadOutcomes(dir) :
          /\ filesRead' = o.read
          /\ \/ /\ o.ok
                /\ \E cs \in [Keys -> RunCases] : grids' = GridsFor(cs, o.tags)
                /\ pc' = "aggregated"
                /\ diag' = diag
             \/ /\ ~o.ok
                /\ grids' = grids
                /\ pc' = "exit"
                /\ diag' = [msg |-> "error in combine_primary() function",
                            detail |-> o.err.detail, names |-> o.err.names]
    /\ UNCHANGED <<argv, args, dir, written, joined, df_filtered, guard, pm, ipm>>
    /\ UNCHANGED <<date_range, refvars>>
    /\ UNCHANGED <<hdrvars, aggvars>>

----------------------------------------------------------------------------
(* get_arguments                                                           *)

\* A plausible slip: -s left alone when -k, which overrides -w, is given too.
get_arguments_unless_darksky(a) ==
    IF a.wind /\ ~a.darksky /\ a.summary # <<"1", "H">>
    THEN [a EXCEPT !.summary = <<"1", "H">>]
    ELSE a

\* The parsed arguments: those typed, -s reset to "1H" under -w.
get_arguments(a) ==
    IF a.wind /\ a.summary # <<"1", "H">>
    THEN [a EXCEPT !.summary = <<"1", "H">>]
    ELSE a

GetArguments ==
    /\ pc = "argv"
    /\ args' = get_arguments(argv)
    /\ pc' = "start"
    /\ UNCHANGED <<argv, dir, filesRead, written, diag, grids, joined,
                   df_filtered, guard, pm, ipm>>
    /\ UNCHANGED <<date_range, refvars>>
    /\ UNCHANGED <<hdrvars, aggvars>>

----------------------------------------------------------------------------
(* input_files_check and existing_output_files_check                       *)

OtherInputs == {"REF_25", "REF_wd", "REF_ws", "DSKY"}

AnyPrimary == [word |-> <<"P", "r", "i", "m", "a", "r", "y">>, suffix |-> <<".", "c", "s", "v">>]

GlobbedPrimary == {n \in AllNames : Matches(n, AnyPrimary)}

files_missing(a, d) ==
    IF a.reference THEN "REF_25" \notin d.others
    ELSE IF a.wind THEN "REF_wd" \notin d.others \/ "REF_ws" \notin d.others
    ELSE IF a.darksky THEN "DSKY" \notin d.others
    ELSE FALSE

input_files_check ==
    /\ pc = "start"
    /\ \/ /\ {f \in dir.files : f.name \in GlobbedPrimary} = {}
          /\ pc' = "exit"
          /\ diag' = Diag("error! expected primary sensor CSV files not found")
       \/ /\ {f \in dir.files : f.name \in GlobbedPrimary} # {}
          /\ files_missing(args, dir)
          /\ pc' = "exit"
          /\ diag' = Diag("expected file(s) required with option not found")
       \/ /\ {f \in dir.files : f.name \in GlobbedPrimary} # {}
          /\ ~files_missing(args, dir)
          /\ pc' = "checked"
          /\ diag' = diag
    /\ UNCHANGED <<argv, args, dir, filesRead, written, grids, joined, df_filtered,
                   guard, pm, ipm>>
    /\ UNCHANGED <<date_range, refvars>>
    /\ UNCHANGED <<hdrvars, aggvars>>

\* The output file whose name holds "_" + prefix.
all_output_files ==
    [full |-> "combined_full.csv", xl |-> "combined_summarized_xl.xlsx",
     csv |-> "combined_summarized_csv.csv",
     retigo |-> "combined_summarized_retigo.csv"]

overwrite_output_files(output_type) ==
    {all_output_files[t] : t \in output_type \cap DOMAIN all_output_files}

existing_output_files_check ==
    /\ pc = "checked"
    /\ LET output_type == (IF "all" \in args.output THEN {"xl", "csv", "retigo"}
                           ELSE args.output)
                          \cup (IF args.full THEN {"full"} ELSE {})
           files_exist == dir.outputs \cap overwrite_output_files(output_type) # {}
       IN  /\ args' = [args EXCEPT !.output = output_type]
           /\ \E proceed \in (IF files_exist THEN {"y", "n"} ELSE {"y"}) :
                 pc' = IF proceed = "y" THEN "proceed" ELSE "cancelled"
    /\ UNCHANGED <<argv, dir, filesRead, written, diag, grids, joined, df_filtered,
                   guard, pm, ipm>>
    /\ UNCHANGED <<date_range, refvars>>
    /\ UNCHANGED <<hdrvars, aggvars>>

----------------------------------------------------------------------------
(* combine_reference                                                       *)
(* Timestamps are seconds; a naive timestamp counts from 2020-01-01        *)
(* 00:00:00 on the wall clock, a UTC one from 2020-01-01 00:00:00 UTC.     *)

\* str(value_names.get(key)): "None" for a key the dictionary does not hold
value_names(key) ==
    IF key = <<"w", "d">> THEN "WindDirection"
    ELSE IF key = <<"w", "s">> THEN "WindSpeed"
    ELSE IF key = <<"2", "5">> THEN "PM2.5_ATM_ug/m3"
    ELSE IF key = <<"t", "e">> THEN "Temperature_F"
    ELSE "None"

\* glob "*REF*.csv"
RefPattern == [word |-> <<"R", "E", "F">>, suffix |-> <<".", "c", "s", "v">>]

\* The first and the last wall-clock second of US/Pacific daylight time in
\* 2020: March 8 and November 1, 02:00.
DstStart == (67 * 24 + 2) * Hour

DstEnd == (305 * 24 + 2) * Hour

\* A plausible slip: the station's clock taken as US/Pacific, seven hours
\* behind UTC in summer.
tz_convert_pacific(t) ==
    IF DstStart <= t /\ t < DstEnd THEN t + 7 * Hour ELSE t + 8 * Hour

\* FixedOffset(-8 * 60): minutes east of UTC
FixedOffset == -8 * 60

\* tz_localize(FixedOffset(-8 * 60), ...).tz_convert('UTC') of one naive
\* timestamp: a fixed offset has no ambiguous and no nonexistent time.
tz_convert(t) == t - FixedOffset * 60

\* station_coordinates: the rows of pasc_ref_stations.csv, Lake Elsinore and
\* Norco, under their sensor names (coordinates in hundredths of a degree).
station_coordinates ==
    [NORCO_REF |-> [chars |-> <<"N", "O", "R", "C", "O", "_", "R", "E", "F">>,
                    Lat |-> 3392, Lon |-> -11757],
     ELSI_REF  |-> [chars |-> <<"E", "L", "S", "I", "_", "R", "E", "F">>,
                    Lat |-> 3368, Lon |-> -11733]]

\* The key of station_coordinates a sensor name spells, "" when it spells none
\* (the defaultdict then gives an empty row, and ['Lat'] raises KeyError).
StationKey(name) ==
    IF \E s \in DOMAIN station_coordinates : station_coordinates[s].chars = name
    THEN CHOOSE s \in DOMAIN station_coordinates : station_coordinates[s].chars = name
    ELSE ""

\* basename[:underscore].strip() + "_REF"
sensor_name(basename) ==
    Strip(Slice(basename, 0, Index(basename, "_", 0))) \o <<"_", "R", "E", "F">>

station_merged_csv ==
    <<"_", "s", "t", "a", "t", "i", "o", "n", "_", "m", "e", "r", "g", "e", "d",
      ".", "c", "s", "v">>

\* A plausible slip: the sensor name used whole.
ref_output_filename_whole(name) == name \o station_merged_csv

\* sensor_name[:-4] + "_station_merged.csv" (after csv_full_path)
ref_output_filename(name) == Slice(name, 0, Len(name) - 4) \o station_merged_csv

\* The column a reference file's values go to:
\* value_names.get(basename[len(basename)-6:dot].strip())
ref_val(basename) ==
    value_names(Strip(Slice(basename, Len(basename) - 6, Index(basename, ".", 0))))

\* reduce(pd.merge(left_index, right_index)): the timestamps every file has
\* a row for, each with the value of every file.
MergedTimes(F) ==
    {t \in UNION {{r.t : r \in f.rows} : f \in F} :
        \A f \in F : \E r \in f.rows : r.t = t}

MergedRow(F, t) ==
    [DateTime_UTC |-> tz_convert(t),
     v |-> [c \in {ref_val(f.name) : f \in F} |->
              LET f == CHOOSE g \in F : ref_val(g.name) = c
              IN  (CHOOSE r \in f.rows : r.t = t).v]]

\* .loc[min_date:max_date]
Clip(rows, range) ==
    {r \in rows : range.min_date[1] <= r.DateTime_UTC
                  /\ r.DateTime_UTC <= range.max_date[1]}

RECURSIVE Ascending(_)
Ascending(T) ==
    IF T = {} THEN <<>> ELSE <<Min(T)>> \o Ascending(T \ {Min(T)})

RECURSIVE SumPm(_)
SumPm(R) ==
    IF R = {} THEN 0
    ELSE LET r == CHOOSE x \in R : TRUE
         IN  r.v["PM2.5_ATM_ug/m3"][1] + SumPm(R \ {r})

\* rolling('24H').mean() at the row of time t
Rolling24H(R, t) ==
    LET W == {r \in R : t - 24 * Hour < r.DateTime_UTC /\ r.DateTime_UTC <= t}
    IN  SumPm(W) \div Cardinality(W)

\* A row of the reference station as it is appended to the combined table:
\* reindex(columns=cols) leaves every column the station has no value for NaN.
RefRecord(R, r, key) ==
    [Sensor |-> key, DateTime_UTC |-> r.DateTime_UTC,
     val |-> [c \in PrimaryPaired \cup SecondaryPaired |->
                IF c = "PM2.5_ATM_ug/m3" THEN r.v[c] ELSE NaN],
     Ipm25 |-> CalcAqi(Rolling24H(R, r.DateTime_UTC))]

NoStation == [exists |-> FALSE, name |-> <<>>, rows |-> {}]

\* A plausible slip: drop(..., errors='ignore'), which skips a missing label.
drop_wind_ignoring(cols) == FALSE

\* df_merged_ref.drop(["WindDirection", "WindSpeed"], axis=1) raises KeyError
\* unless the merged table has both columns.
drop_wind_raises(cols) == ~({"WindDirection", "WindSpeed"} \subseteq cols)

RefError(detail) ==
    [msg |-> " error in combine_reference().", detail |-> detail, names |-> {}]

\* combine_reference, called when -r or -w is set.  glob gives the files in
\* any order and the station is taken from the last one.  The station file is
\* written before the wind columns are dropped, and drop raises KeyError for
\* a column the merged table does not have.  What DataFrame.apply assigns for
\* a table with no row depends on the pandas release: both outcomes are kept.
CombineReference ==
    /\ pc = "combined"
    /\ args.reference \/ args.wind
    /\ LET F == {f \in ref_files.ref : Matches(f.name, RefPattern)}
       IN  \/ /\ F = {}
              /\ pc' = "exit"
              /\ diag' = RefError("ValueError")
              /\ UNCHANGED <<station_merged, df_filtered, written>>
           \/ \E last \in F :
                LET name   == sensor_name(last.name)
                    key    == StationKey(name)
                    cols   == {ref_val(f.name) : f \in F}
                    merged == Clip({MergedRow(F, t) : t \in MergedTimes(F)}, date_range)
                    file   == [exists |-> TRUE, name |-> ref_output_filename(name),
                               rows |-> merged]
                    R      == IF "PM2.5_ATM_ug/m3" \in cols
                              THEN {r \in merged : ~IsNaN(r.v["PM2.5_ATM_ug/m3"])}
                              ELSE {}
                    times  == Ascending({r.DateTime_UTC : r \in R})
                    rows   == [i \in 1..Len(times) |->
                                 RefRecord(R, CHOOSE r \in R : r.DateTime_UTC = times[i], key)]
                IN  \/ /\ key = ""
                       /\ pc' = "exit"
                       /\ diag' = RefError("KeyError")
                       /\ UNCHANGED <<station_merged, df_filtered, written>>
                    \/ /\ key # ""
                       /\ drop_wind_raises(cols)
                       /\ station_merged' = file
                       /\ pc' = "exit"
                       /\ diag' = RefError("KeyError")
                       /\ UNCHANGED <<df_filtered, written>>
                    \/ /\ key # ""
                       /\ ~drop_wind_raises(cols)
                       /\ R = {}
                       /\ station_merged' = file
                       /\ pc' = "exit"
                       /\ diag' = RefError("ValueError")
                       /\ UNCHANGED <<df_filtered, written>>
                    \/ /\ key # ""
                       /\ ~drop_wind_raises(cols)
                       /\ station_merged' = file
                       /\ df_filtered' = df_filtered \o rows
                       /\ written' = written \cup
                            (IF args.full THEN {"combined_full.csv"} ELSE {})
                       /\ pc' = "referenced"
                       /\ diag' = diag
    /\ UNCHANGED <<argv, args, dir, filesRead, grids, joined, guard, pm, ipm,
                   date_range, ref_files, df3, retigo>>
    /\ UNCHANGED <<hdrvars, aggvars>>

----------------------------------------------------------------------------
(* summarize: the summary rows and the output files                        *)

\* Lat and Lon of a sensor's rows: float() of the coordinates in the name of
\* its Primary A file, "(3.5 -7.5)", and those of the station table.
Coordinates(sensor) ==
    IF sensor \in DOMAIN station_coordinates
    THEN [Lat |-> station_coordinates[sensor].Lat, Lon |-> station_coordinates[sensor].Lon]
    ELSE [Lat |-> 350, Lon |-> -750]

\* The seconds of the offset aliases of pandas that have a fixed length of at
\* least a second, 0 for any other name.  The name is upper-cased before it
\* is looked up, so "h" is the alias "H" (the program itself calls floor('h'));
\* "min" is an alias of "T".
offset_alias(name) ==
    LET upper == UpperStr(name)
    IN  CASE upper = <<"W">> -> 604800
          [] upper = <<"D">> -> 86400
          [] upper = <<"H">> -> 3600
          [] upper = <<"T">> -> 60
          [] upper = <<"M", "I", "N">> -> 60
          [] upper = <<"S">> -> 1
          [] OTHER -> 0

\* to_offset(freq), which resample(args.summary) applies to its rule: an
\* optional count and an alias, [ok, sec]; ok is FALSE where pandas raises
\* ValueError (a name that is no alias, text after the alias).  Offsets made
\* of several counted aliases are not among the arguments tried.  Intervals
\* of a day and a week start at local midnight; BinOf below is used with
\* intervals under a day.
to_offset(freq) ==
    LET digits == {i \in 1..Len(freq) : freq[i] \in Digits}
        count  == IF 1 \in digits THEN FirstRun(freq, TRUE) ELSE <<>>
        name   == SubSeq(freq, Len(count) + 1, Len(freq))
        n      == IF count = <<>> THEN 1 ELSE ToInt(count)
    IN  IF name = <<>> \/ (\E i \in 1..Len(name) : name[i] \in Digits)
           \/ offset_alias(name) = 0 \/ n = 0
        THEN [ok |-> FALSE, sec |-> 0]
        ELSE [ok |-> TRUE, sec |-> n * offset_alias(name)]

\* The start of the interval of resample(args.summary) a timestamp is in.
BinOf(t, sec) == (t \div sec) * sec

\* A plausible slip: resample without groupby('Sensor').
RowsInPooled(df, s, b, sec) ==
    {i \in 1..Len(df) : BinOf(df[i].DateTime_UTC, sec) = b}

\* groupby('Sensor').resample(args.summary): the rows of one sensor in the
\* interval that starts at b
RowsIn(df, s, b, sec) ==
    {i \in 1..Len(df) : df[i].Sensor = s /\ BinOf(df[i].DateTime_UTC, sec) = b}

\* The intervals of one sensor: every one from its first to its last, those
\* with no row included.
BinsOf(df, s, sec) ==
    LET B == {BinOf(df[i].DateTime_UTC, sec) : i \in {j \in 1..Len(df) : df[j].Sensor = s}}
    IN  {Min(B) + sec * j : j \in 0..((Max(B) - Min(B)) \div sec)}

RECURSIVE SumCol(_, _, _)
SumCol(df, J, c) ==
    IF J = {} THEN 0
    ELSE LET i == CHOOSE j \in J : TRUE
         IN  df[i].val[c][1] + SumCol(df, J \ {i}, c)

RECURSIVE SumIpm(_, _)
SumIpm(df, J) ==
    IF J = {} THEN 0
    ELSE LET i == CHOOSE j \in J : TRUE IN df[i].Ipm25 + SumIpm(df, J \ {i})

\* mean() of a column over rows: NaN cells are skipped, the mean of no cell
\* is NaN.
ColMean(df, J, c) ==
    LET K == {i \in J : ~IsNaN(df[i].val[c])}
    IN  IF K = {} THEN NaN ELSE <<SumCol(df, K, c) \div Cardinality(K)>>

\* A plausible slip: the index of an interval computed by calc_aqi from the
\* interval's mean concentration.
IpmOfIntervalRecomputed(df, J) ==
    LET m == ColMean(df, J, "PM2.5_ATM_ug/m3")
    IN  IF IsNaN(m) THEN 0 ELSE CalcAqi(m[1])

\* The Ipm25 column of a resampled row with at least one record: mean() of
\* the records' Ipm25 and, after the notnull filter, astype(int), which cuts
\* the fraction off.
IpmOfInterval(df, J) == SumIpm(df, J) \div Cardinality(J)

\* One row of df2.resample(args.summary).mean()
ResampleRow(df, s, b, sec) ==
    LET J == RowsIn(df, s, b, sec)
    IN  [Sensor |-> s, DateTime |-> b,
         val |-> [c \in PrimaryPaired \cup SecondaryPaired |-> ColMean(df, J, c)],
         Ipm25 |-> IF J = {} THEN NaN ELSE <<IpmOfInterval(df, J)>>,
         Lat |-> IF J = {} THEN NaN ELSE <<Coordinates(s).Lat>>,
         Lon |-> IF J = {} THEN NaN ELSE <<Coordinates(s).Lon>>]

Resample(df, sec) ==
    UNION {{ResampleRow(df, s, b, sec) : b \in BinsOf(df, s, sec)} :
             s \in {df[i].Sensor : i \in 1..Len(df)}}

\* df3[df3['PM2.5_ATM_ug/m3'].notnull()], then Ipm25 as int
NotNullPm25(rows) ==
    {[r EXCEPT !.Ipm25 = r.Ipm25[1]] : r \in {q \in rows : ~IsNaN(q.val["PM2.5_ATM_ug/m3"])}}

\* df_dsky and df_wind: the wind rows of DSKY_station_merged.csv inside the
\* date range with -k, else those of the station file with -w (which has
\* both wind columns once combine_reference has returned).
WindRows(a, dsky, station, range) ==
    IF a.darksky
    THEN {w \in dsky.rows : range.min_date[1] <= w.DateTime_UTC
                             /\ w.DateTime_UTC <= range.max_date[1]}
    ELSE IF a.wind
    THEN {[DateTime_UTC |-> r.DateTime_UTC, WindDirection |-> r.v["WindDirection"],
           WindSpeed |-> r.v["WindSpeed"]] :
             r \in {x \in station.rows :
                       {"WindDirection", "WindSpeed"} \subseteq DOMAIN x.v}}
    ELSE {}

\* df3.merge(df_wind, how='left', on=datetime_col_name): the wind of the
\* row's timestamp, NaN when the wind table has no row for it.
MergeWind(rows, W) ==
    UNION {IF \E w \in W : w.DateTime_UTC = r.DateTime
           THEN {[Sensor |-> r.Sensor, DateTime |-> r.DateTime, val |-> r.val,
                  Ipm25 |-> r.Ipm25, Lat |-> r.Lat, Lon |-> r.Lon,
                  WindDirection |-> w.WindDirection, WindSpeed |-> w.WindSpeed] :
                    w \in {x \in W : x.DateTime_UTC = r.DateTime}}
           ELSE {[Sensor |-> r.Sensor, DateTime |-> r.DateTime, val |-> r.val,
                  Ipm25 |-> r.Ipm25, Lat |-> r.Lat, Lon |-> r.Lon,
                  WindDirection |-> NaN, WindSpeed |-> NaN]} : r \in rows}

\* df3 as summarize writes it to the csv and xl files.
Summary(df, sec, a, dsky, station, range) ==
    LET kept == NotNullPm25(Resample(df, sec))
    IN  IF a.darksky \/ a.wind
        THEN MergeWind(kept, WindRows(a, dsky, station, range))
        ELSE kept

\* df3['wind_magnitude(m/s)'] / 2.23693629 ; NaN stays NaN
MphToMs(c) == IF IsNaN(c) THEN NaN ELSE <<(c[1] * 100000) \div 223694>>

\* A plausible slip: the rows kept whatever their wind.
NotNullWindOff(rows) == rows

\* df3[df3['wind_magnitude(m/s)'].notnull()]
NotNullWind(rows) == {r \in rows : ~IsNaN(r.WindSpeed)}

\* The rows of combined_summarized_retigo.csv: those with a longitude and,
\* with -w or -k, a wind speed, which is turned from mph into m/s.
Retigo(rows, a) ==
    LET located == {r \in rows : ~IsNaN(r.Lon)}
    IN  IF a.wind \/ a.darksky
        THEN {[ID |-> r.Sensor, Timestamp |-> r.DateTime,
               EAST_LONGITUDE |-> r.Lon, NORTH_LATITUDE |-> r.Lat,
               PM2_5 |-> r.val["PM2.5_ATM_ug/m3"],
               wind_magnitude |-> MphToMs(r.WindSpeed),
               wind_direction |-> r.WindDirection] : r \in NotNullWind(located)}
        ELSE {[ID |-> r.Sensor, Timestamp |-> r.DateTime,
               EAST_LONGITUDE |-> r.Lon, NORTH_LATITUDE |-> r.Lat,
               PM2_5 |-> r.val["PM2.5_ATM_ug/m3"]] : r \in located}

\* summarize: get_summary_interval, the interval inference and its guard, the
\* wind table, the resampling, and the output files.  A missing
\* DSKY_station_merged.csv is an IOError: summarize prints "exiting without
\* changes." and returns nothing, which main cannot unpack.  Resampling a
\* frame with no row depends on the pandas release: it either raises (exit)
\* or yields the empty outputs; both are kept.  The intervals of the rows are
\* those of pandas' own reading of args.summary (to_offset), not of
\* get_summary_interval; a rule pandas cannot read raises ValueError.
Summarize ==
    /\ \/ pc = "referenced"
       \/ pc = "combined" /\ ~(args.reference \/ args.wind)
    /\ LET si   == get_summary_interval(args.summary)
           iv   == interval_duration(df_filtered)
           g    == [done |-> TRUE, sec |-> si.sec, sum |-> iv.sum, n |-> iv.n]
           off  == to_offset(args.summary)
           rows == Summary(df_filtered, off.sec, args, ref_files.dsky,
                           station_merged, date_range)
       IN  \/ /\ ~si.ok
              /\ pc' = "exit"
              /\ diag' = Diag("error in get_summary_interval() function")
              /\ UNCHANGED <<written, guard, df3, retigo>>
           \/ /\ si.ok
              /\ GuardStops(si.sec, iv)
              /\ guard' = g
              /\ pc' = "exit"
              /\ diag' = Diag("error! selected summary interval < sensor data interval")
              /\ UNCHANGED <<written, df3, retigo>>
           \/ /\ si.ok
              /\ ~GuardStops(si.sec, iv)
              /\ args.darksky /\ ~ref_files.dsky.exists
              /\ guard' = g
              /\ pc' = "exit"
              /\ diag' = Diag("exiting without changes.")
              /\ UNCHANGED <<written, df3, retigo>>
           \/ /\ si.ok
              /\ ~GuardStops(si.sec, iv)
              /\ args.darksky => ref_files.dsky.exists
              /\ off.ok
              /\ guard' = g
              /\ pc' = "summarized"
              /\ df3' = rows
              /\ retigo' = IF "retigo" \in args.output \/ "all" \in args.output
                           THEN Retigo(rows, args) ELSE {}
              /\ written' = written \cup SummaryFiles(args.output)
              /\ UNCHANGED diag
           \/ /\ si.ok
              /\ ~GuardStops(si.sec, iv)
              /\ args.darksky => ref_files.dsky.exists
              /\ df_filtered = <<>> \/ ~off.ok
              /\ guard' = g
              /\ pc' = "exit"
              /\ diag' = Diag("error in summarize() function")
              /\ UNCHANGED <<written, df3, retigo>>
    /\ UNCHANGED <<argv, args, dir, filesRead, grids, joined, df_filtered, pm, ipm,
                   date_range, ref_files, station_merged>>
    /\ UNCHANGED <<hdrvars, aggvars>>

\* No reference file, no DSKY file, nothing written yet by combine_reference
\* and summarize.
NoRef ==
    /\ ref_files = [ref |-> {}, dsky |-> [exists |-> FALSE, rows |-> {}]]
    /\ station_merged = NoStation
    /\ df3 = {}
    /\ retigo = {}

----------------------------------------------------------------------------
(* The directories and command lines tried                                 *)

MaxPerFamily == 2

\* The sets of at most MaxPerFamily files of a family, no name twice.
FamilyChoices(fam) ==
    {F \in SUBSET Candidates[fam] :
        /\ Cardinality(F) <= MaxPerFamily
        /\ \A f, g \in F : f.name = g.name => f = g}

GoodFiles == {Regular("S1", fam) : fam \in {"pa", "pb", "sa", "sb"}}

RunArgs(r, w, k, f) ==
    [reference |-> r, wind |-> w, darksky |-> k, full |-> f,
     summary |-> <<"1", "H">>, output |-> output_default]

\* The -s arguments of the runs: config.summary_default and "10min".
RunSummaries == { <<"1", "H">>, <<"1", "0", "m", "i", "n">> }

NoDir == [files |-> {}, others |-> {}, outputs |-> {}]

\* Either a plain command line over every choice of files, or every choice
\* of -r, -w, -k and -f over the other inputs, with the sensor files all
\* there, none there, or only those of channel B.
InitRun ==
    /\ pc = "argv"
    /\ args = RunArgs(FALSE, FALSE, FALSE, FALSE)
    /\ \/ /\ \E f \in BOOLEAN : argv = RunArgs(FALSE, FALSE, FALSE, f)
          /\ \E A \in FamilyChoices("pa"), B \in FamilyChoices("pb"),
                C \in FamilyChoices("sa"), D \in FamilyChoices("sb") :
                dir = [files |-> A \cup B \cup C \cup D, others |-> {},
                       outputs |-> {}]
       \/ /\ \E r, w, k, f \in BOOLEAN, sm \in RunSummaries :
                argv = [RunArgs(r, w, k, f) EXCEPT !.summary = sm]
          /\ \E F \in {GoodFiles, {}, {Regular("S1", "pb"), Regular("S1", "sb")}},
                O \in SUBSET OtherInputs,
                E \in {{}, {"combined_summarized_csv.csv"}} :
                dir = [files |-> F, others |-> O, outputs |-> E]
    /\ filesRead = {}
    /\ written = {}
    /\ diag = NoDiag
    /\ grids = GridsOf([k \in Keys |-> "none"])
    /\ joined = {}
    /\ df_filtered = <<>>
    /\ guard = NoGuard
    /\ pm = 0
    /\ ipm = 0
    /\ date_range = NoRange
    /\ NoRef
    /\ NoHeader
    /\ NoChannel

Next ==
    \/ GetArguments
    \/ input_files_check
    \/ existing_output_files_check
    \/ LoadChannels
    \/ CombinePrimaryTables

Spec == InitRun /\ [][Next]_vars

----------------------------------------------------------------------------
(* The reconciliation and the summary on their own                         *)

\* The run at the point where the four grids have been aggregated.
InitData ==
    /\ pc = "aggregated"
    /\ args = DataArgs(<<"1", "H">>, output_default)
    /\ argv = args
    /\ dir = NoDir
    /\ filesRead = GoodFiles
    /\ written = {}
    /\ diag = NoDiag
    /\ \E cs \in [Keys -> CaseNames \ {"none"}] : grids = GridsOf(cs)
    /\ joined = {}
    /\ df_filtered = <<>>
    /\ guard = NoGuard
    /\ pm = 0
    /\ ipm = 0
    /\ date_range = NoRange
    /\ NoRef
    /\ NoHeader
    /\ NoChannel

NextData == CombinePrimaryTables

SpecData == InitData /\ [][NextData]_vars

\* The distance between a sensor's consecutive rows in the reconciled table:
\* one 5-minute bin of resample('5T'), or five when the bins between had no
\* row in one of the four channels (the joins are inner).
Steps == {SlotSeconds, 5 * SlotSeconds}

\* A plausible slip: the records left at the sensors' own one-minute cadence
\* instead of the 5-minute slots.
StampedByMinute(rec, k, st, base) == [rec EXCEPT !.DateTime_UTC = base + k[2] * 60]

\* A record of the reconciled table at the time of its sensor's step, counted
\* from base.
Stamped(rec, k, st, base) == [rec EXCEPT !.DateTime_UTC = base + k[2] * st[k[1]]]

\* date_range of the table whose secondary b rows are so stamped
StampedRange(g, st, base) ==
    DateRange({base + k[2] * st[k[1]] : k \in Present(g.sb)})

\* The run at the point where combine_primary has returned its table (no -r,
\* -w): the tables are those CombinePrimaryTables returns for grids whose
\* rows pass the filter, a sensor's rows one step apart.
InitSum ==
    /\ pc = "combined"
    /\ \E s \in SummaryArgs, o \in OutputTypes : args = DataArgs(s, o)
    /\ argv = args
    /\ dir = NoDir
    /\ filesRead = GoodFiles
    /\ written = {"combined_full_ab.csv"}
    /\ diag = NoDiag
    /\ \E cs \in [Keys -> {"none", "agree", "sec_nan"}], st \in [Sensors -> Steps] :
          /\ grids = GridsOf(cs)
          /\ joined = JoinedKeys(grids)
          /\ LET keys == SortedKeys(ChannelFilter(grids, joined))
             IN  df_filtered =
                   [i \in 1..Len(keys) |-> Stamped(RecordOf(grids, keys[i]), keys[i], st, 0)]
          /\ date_range = StampedRange(grids, st, 0)
    /\ guard = NoGuard
    /\ pm = 0
    /\ ipm = 0
    /\ NoRef
    /\ NoHeader
    /\ NoChannel

NextSum == Summarize

SpecSum == InitSum /\ [][NextSum]_vars

----------------------------------------------------------------------------
(* The reference station and the summary rows                              *)

MaxRefHour == 1

\* The hours, counted from the first hour of the sensor data, the reference
\* files may have a row for.
RefHours == 0..MaxRefHour

Day == 24 * Hour

\* The sensor data starts on January 15 or on July 1, 2020, 00:00:00 UTC.
Bases == {14 * Day, 182 * Day}

KindChars == [pm |-> <<"2", "5">>, wd |-> <<"w", "d">>, ws |-> <<"w", "s">>]

\* What the reference files hold for one hour: no row, a row with every
\* value, one with no PM2.5 value, one with no wind speed.
RefCaseNames == {"none", "full", "pm_nan", "ws_nan"}

RefCell(case, kind, h) ==
    IF kind = "pm" THEN (IF case = "pm_nan" THEN NaN ELSE <<1200 + 600 * h>>)
    ELSE IF kind = "wd" THEN <<27000>>
    ELSE (IF case = "ws_nan" THEN NaN ELSE <<500 + 100 * h>>)

\* <stem>_REF_<kind>.csv: the station's clock is PST, eight hours behind UTC.
RefFile(stem, kind, layout, base) ==
    [name |-> stem \o <<"_", "R", "E", "F", "_">> \o KindChars[kind] \o <<".", "c", "s", "v">>,
     rows |-> {[t |-> base + h * Hour - 8 * Hour, v |-> RefCell(layout[h], kind, h)] :
                 h \in {x \in RefHours : layout[x] # "none"}}]

\* DSKY_station_merged.csv, in UTC
DskyFile(exists, layout, base) ==
    [exists |-> exists,
     rows |-> IF exists
              THEN {[DateTime_UTC |-> base + h * Hour, WindDirection |-> <<18000>>,
                     WindSpeed |-> IF layout[h] = "ws_nan" THEN NaN ELSE <<700>>] :
                       h \in {x \in RefHours : layout[x] # "none"}}
              ELSE {}]

\* The files found: the three reference files and the DSKY file, the PM2.5
\* file only, the two wind files and the DSKY file, none.
RefDirs ==
    {[kinds |-> {"pm", "wd", "ws"}, dsky |-> TRUE], [kinds |-> {"pm"}, dsky |-> FALSE],
     [kinds |-> {"wd", "ws"}, dsky |-> TRUE], [kinds |-> {}, dsky |-> FALSE]}

\* Both sensors alike, each with its own concentration, one sensor only, or
\* every sensor with a concentration that changes from slot to slot.
RefGrids ==
    {[k \in Keys |-> "agree"],
     [k \in Keys |-> IF k[1] = "S1" THEN "agree" ELSE "sec_nan"],
     [k \in Keys |-> IF k[1] = "S1" THEN "agree" ELSE "none"],
     [k \in Keys |-> IF k[2] = 0 THEN "agree" ELSE "sec_nan"]}

\* The stems of the reference files: Norco, and a station the table lacks.
Norco == <<"N", "O", "R", "C", "O">>

Unlisted == <<"R", "I", "V", "R">>

\* The run at the point where combine_primary has returned its table and
\* date_range: every choice of -r, -w, -k and -f that gets this far (-f
\* needs -r or -w; -s is left at its default with -w), over the reference
\* files of the directory.
InitRef ==
    /\ pc = "combined"
    /\ \E r, w, k, f \in BOOLEAN, sm \in RunSummaries :
          /\ f => (r \/ w)
          /\ w => sm = <<"1", "H">>
          /\ argv = [RunArgs(r, w, k, f) EXCEPT !.summary = sm]
          /\ args = [get_arguments(argv) EXCEPT
                       !.output = @ \cup (IF f THEN {"full"} ELSE {})]
    /\ filesRead = GoodFiles
    /\ written = {"combined_full_ab.csv"}
    /\ diag = NoDiag
    /\ \E cs \in RefGrids, base \in Bases :
          LET st == [s \in Sensors |-> SlotSeconds] IN
          /\ grids = GridsOf(cs)
          /\ joined = JoinedKeys(grids)
          /\ LET keys == SortedKeys(ChannelFilter(grids, joined))
             IN  df_filtered =
                   [i \in 1..Len(keys) |-> Stamped(RecordOf(grids, keys[i]), keys[i], st, base)]
          /\ date_range = StampedRange(grids, st, base)
          /\ \/ \E d \in RefDirs, layout \in [RefHours -> RefCaseNames] :
                   ref_files = [ref  |-> {RefFile(Norco, kind, layout, base) : kind \in d.kinds},
                                dsky |-> DskyFile(d.dsky, layout, base)]
             \/ ref_files = [ref  |-> {RefFile(Unlisted, kind, [h \in RefHours |-> "full"], base) :
                                          kind \in {"pm", "wd", "ws"}},
                             dsky |-> DskyFile(FALSE, [h \in RefHours |-> "full"], base)]
    /\ dir = [files |-> GoodFiles,
              others |-> {"REF_25" : f \in {g \in ref_files.ref : ref_val(g.name) = "PM2.5_ATM_ug/m3"}}
                         \cup {"REF_wd" : f \in {g \in ref_files.ref : ref_val(g.name) = "WindDirection"}}
                         \cup {"REF_ws" : f \in {g \in ref_files.ref : ref_val(g.name) = "WindSpeed"}}
                         \cup (IF ref_files.dsky.exists THEN {"DSKY"} ELSE {}),
              outputs |-> {}]
    /\ station_merged = NoStation
    /\ df3 = {}
    /\ retigo = {}
    /\ guard = NoGuard
    /\ pm = 0
    /\ ipm = 0
    /\ NoHeader
    /\ NoChannel

NextRef == CombineReference \/ Summarize

SpecRef == InitRef /\ [][NextRef]_vars

----------------------------------------------------------------------------
(* calc_aqi over a range of concentrations                                 *)

\* The concentrations tried are -MaxNegTenths..MaxTenths tenths of a ug/m3,
\* each with a second decimal of 0, 5 or 9.
MaxTenths == 6010

MaxNegTenths == 30

Concentrations ==
    {10 * t + h : t \in 0..MaxTenths, h \in {0, 5, 9}}
    \cup {-(10 * t + h) : t \in 0..MaxNegTenths, h \in {0, 5, 9}}

InitAqi ==
    /\ pc = "call"
    /\ pm \in Concentrations
    /\ ipm = 0
    /\ date_range = NoRange
    /\ NoRef
    /\ args = DataArgs(<<"1", "H">>, output_default)
    /\ argv = args
    /\ dir = NoDir
    /\ filesRead = {}
    /\ written = {}
    /\ diag = NoDiag
    /\ grids = GridsOf([k \in Keys |-> "none"])
    /\ joined = {}
    /\ df_filtered = <<>>
    /\ guard = NoGuard
    /\ NoHeader
    /\ NoChannel

\* One call of calc_aqi.
CalcAqiCall ==
    /\ pc = "call"
    /\ ipm' = CalcAqi(pm)
    /\ pc' = "returned"
    /\ UNCHANGED <<argv, pm, args, dir, filesRead, written, diag, grids, joined,
                   df_filtered, guard>>
    /\ UNCHANGED <<date_range, refvars>>
    /\ UNCHANGED <<hdrvars, aggvars>>

NextAqi == CalcAqiCall

SpecAqi == InitAqi /\ [][NextAqi]_vars

----------------------------------------------------------------------------
(* get_summary_interval on its own                                         *)

\* The largest count of a summary argument tried.
MaxCount == 12

\* The units of the -s argument the program documents: W(eek), D(ay), H(our),
\* min or T (minute), S(econd).
SummaryUnits ==
    {<<"W">>, <<"D">>, <<"H">>, <<"m", "i", "n">>, <<"T">>, <<"S">>}

DigitChar(d) ==
    CASE d = 0 -> "0" [] d = 1 -> "1" [] d = 2 -> "2" [] d = 3 -> "3"
      [] d = 4 -> "4" [] d = 5 -> "5" [] d = 6 -> "6" [] d = 7 -> "7"
      [] d = 8 -> "8" [] d = 9 -> "9"

RECURSIVE Numeral(_)
\* The decimal digits of a natural number, as the user types them.
Numeral(n) ==
    IF n < 10 THEN <<DigitChar(n)>>
    ELSE Numeral(n \div 10) \o <<DigitChar(n % 10)>>

\* summarize at the call of get_summary_interval, over a counted unit or a
\* unit with no count.
InitInterval ==
    /\ pc = "interval"
    /\ \E u \in SummaryUnits :
          \/ \E n \in 1..MaxCount : args = DataArgs(Numeral(n) \o u, output_default)
          \/ args = DataArgs(u, output_default)
    /\ argv = args
    /\ dir = NoDir
    /\ filesRead = {}
    /\ written = {}
    /\ diag = NoDiag
    /\ grids = GridsOf([k \in Keys |-> "none"])
    /\ joined = {}
    /\ df_filtered = <<>>
    /\ guard = NoGuard
    /\ pm = 0
    /\ ipm = 0
    /\ date_range = NoRange
    /\ NoRef
    /\ NoHeader
    /\ NoChannel

\* One call of get_summary_interval: summary_interval_sec is kept in
\* guard.sec; the except clause prints and exits.
GetSummaryIntervalCall ==
    /\ pc = "interval"
    /\ LET si == get_summary_interval(args.summary)
       IN  \/ /\ si.ok
              /\ guard' = [NoGuard EXCEPT !.sec = si.sec]
              /\ pc' = "interval_returned"
              /\ diag' = diag
           \/ /\ ~si.ok
              /\ guard' = guard
              /\ pc' = "exit"
              /\ diag' = Diag("error in get_summary_interval() function")
    /\ UNCHANGED <<argv, args, dir, filesRead, written, grids, joined,
                   df_filtered, pm, ipm>>
    /\ UNCHANGED <<date_range, refvars>>
    /\ UNCHANGED <<hdrvars, aggvars>>

NextInterval == GetSummaryIntervalCall

SpecInterval == InitInterval /\ [][NextInterval]_vars

----------------------------------------------------------------------------
(* The header of one Primary A file, in the order of its columns           *)

\* pa_version4_a, in the order of the source list.
pa_version4_a_list ==
    <<"created_at", "entry_id", "PM1.0_CF1_ug/m3", "PM2.5_CF1_ug/m3",
      "PM10.0_CF1_ug/m3", "UptimeMinutes", "RSSI_dbm", "Temperature_F",
      "Humidity_%", "PM2.5_ATM_ug/m3">>

\* The header of a file that names the humidity column "RH_%".
renamed_list ==
    [i \in 1..Len(pa_version4_a_list) |->
        IF pa_version4_a_list[i] = "Humidity_%" THEN "RH_%" ELSE pa_version4_a_list[i]]

Range(q) == {q[i] : i \in 1..Len(q)}

\* A plausible slip: the lists zipped in the order they come in.
sorted_as_given(q) == q

\* sorted(list) of a list of distinct names, in Python's string order.
sorted(q) == [i \in 1..Len(q) |-> AtPlace(Range(q), i)]

\* dict(zip(keys, values)): zip stops at the shorter list.
dict_zip(keys, values) ==
    LET n == IF Len(keys) <= Len(values) THEN Len(keys) ELSE Len(values)
    IN  [h \in {keys[i] : i \in 1..n} |->
            values[CHOOSE i \in 1..n : keys[i] = h]]

\* The largest number of column swaps between a header tried and the list
\* it is a reordering of.
MaxSwaps == 2

Swap(q, i, j) ==
    [k \in 1..Len(q) |-> IF k = i THEN q[j] ELSE IF k = j THEN q[i] ELSE q[k]]

RECURSIVE Orders(_, _)
\* The reorderings of a list within n swaps of two columns.
Orders(q, n) ==
    IF n = 0 THEN {q}
    ELSE LET P == Orders(q, n - 1)
         IN  P \cup {Swap(r, i, j) : r \in P, i \in 1..Len(q), j \in 1..Len(q)}

\* combine_primary at pd.read_csv of a Primary A file that has rows: the
\* header is a reordering of the canonical one or of the one with "RH_%".
InitHeaders ==
    /\ pc = "read_csv"
    /\ \E base \in {pa_version4_a_list, renamed_list} :
          actual_fieldnames \in Orders(base, MaxSwaps)
    /\ rename_columns = <<>>
    /\ args = DataArgs(<<"1", "H">>, output_default)
    /\ argv = args
    /\ dir = NoDir
    /\ filesRead = {}
    /\ written = {}
    /\ diag = NoDiag
    /\ grids = GridsOf([k \in Keys |-> "none"])
    /\ joined = {}
    /\ df_filtered = <<>>
    /\ guard = NoGuard
    /\ pm = 0
    /\ ipm = 0
    /\ date_range = NoRange
    /\ NoRef
    /\ NoChannel

\* fieldnames_dict = dict(zip(actual_fieldnames_sorted, pa_version4_a_sorted)),
\* which dfs.rename(columns=fieldnames_dict) applies.
ReadHeader ==
    /\ pc = "read_csv"
    /\ rename_columns' = dict_zip(sorted(actual_fieldnames), sorted(pa_version4_a_list))
    /\ pc' = "renamed"
    /\ UNCHANGED <<argv, args, dir, filesRead, written, diag, grids, joined,
                   df_filtered, guard, pm, ipm, actual_fieldnames>>
    /\ UNCHANGED <<date_range, refvars, aggvars>>

NextHeaders == ReadHeader

SpecHeaders == InitHeaders /\ [][NextHeaders]_vars

----------------------------------------------------------------------------
(* The 5-minute aggregation of one channel                                 *)

\* The last 5-minute slot a source row is tried in.
MaxAggSlot == 3

\* The times of the source rows tried: two in the first slot (00:00:00 and
\* 00:02:30), one at the start of each later slot.
SourceTimes == {0, SlotSeconds \div 2} \cup {SlotSeconds * k : k \in 1..MaxAggSlot}

\* A source row of a sensor at a time; its PM2.5 ATM reading (hundredths of
\* a ug/m3) differs from row to row.
SourceRow(s, t) ==
    [Sensor |-> s, DateTime_UTC |-> t, pm25 |-> 1000 + t \div 15
                                               + (IF s = "S1" THEN 0 ELSE 7)]

RECURSIVE SumPm25(_)
SumPm25(R) ==
    IF R = {} THEN 0
    ELSE LET r == CHOOSE x \in R : TRUE IN r.pm25 + SumPm25(R \ {r})

\* groupby('Sensor').resample('5T').agg(d), drop('Sensor', 1), reset_index:
\* for each sensor one row per 5-minute interval from the interval of its
\* first source row to that of its last one; the mean of the readings in
\* the interval, NaN for an interval with no source row.
resample_5T(df) ==
    UNION {LET mine == {r \in df : r.Sensor = s}
               bins == {BinOf(r.DateTime_UTC, SlotSeconds) : r \in mine}
           IN  {LET J == {r \in mine : BinOf(r.DateTime_UTC, SlotSeconds) = b}
                IN  [Sensor |-> s, DateTime_UTC |-> b,
                     pm25 |-> IF J = {} THEN NaN
                              ELSE <<SumPm25(J) \div Cardinality(J)>>] :
                  b \in {Min(bins) + SlotSeconds * j :
                           j \in 0..((Max(bins) - Min(bins)) \div SlotSeconds)}} :
             s \in {r.Sensor : r \in df}}

\* combine_primary after pd.concat of a channel's files: some source rows of
\* one or both sensors.
InitAgg ==
    /\ pc = "concatenated"
    /\ \E P \in SUBSET (Sensors \X SourceTimes) :
          /\ P # {}
          /\ concatenated = {SourceRow(p[1], p[2]) : p \in P}
    /\ resampled = {}
    /\ args = DataArgs(<<"1", "H">>, output_default)
    /\ argv = args
    /\ dir = NoDir
    /\ filesRead = GoodFiles
    /\ written = {}
    /\ diag = NoDiag
    /\ grids = GridsOf([k \in Keys |-> "none"])
    /\ joined = {}
    /\ df_filtered = <<>>
    /\ guard = NoGuard
    /\ pm = 0
    /\ ipm = 0
    /\ date_range = NoRange
    /\ NoRef
    /\ NoHeader

\* The aggregation of the channel's table.
ResampleChannel ==
    /\ pc = "concatenated"
    /\ resampled' = resample_5T(concatenated)
    /\ pc' = "resampled"
    /\ UNCHANGED <<argv, args, dir, filesRead, written, diag, grids, joined,
                   df_filtered, guard, pm, ipm, concatenated>>
    /\ UNCHANGED <<date_range, refvars, hdrvars>>

NextAgg == ResampleChannel

SpecAgg == InitAgg /\ [][NextAgg]_vars

----------------------------------------------------------------------------
(* Properties of the channel reconciliation (SpecData)                     *)

HasRecord(k) ==
    \E i \in DOMAIN df_filtered :
        /\ df_filtered[i].Sensor = k[1]
        /\ df_filtered[i].DateTime_UTC = SlotSeconds * k[2]

InBoth(k) == k \in Present(grids.pa) /\ k \in Present(grids.pb)

\* The two readings disagree: they differ by 5 ug/m3 or more, or by 70 % or
\* more of their mean.
Disagree(a, b) ==
    /\ ~IsNaN(a)
    /\ ~IsNaN(b)
    /\ \/ Abs(a[1] - b[1]) >= 500
       \/ a[1] + b[1] > 0 /\ 20 * Abs(a[1] - b[1]) >= 7 * (a[1] + b[1])

DisagreeOn(k, col) == Disagree(grids.pa[k].v[col], grids.pb[k].v[col])

\* C1: a (sensor, slot) present in both channel grids whose PM2.5 ATM readings
\* or whose PM2.5 CF1 readings disagree has no record in combine_primary's
\* output.
C1_DisagreeingPairsDropped ==
    pc = "combined" =>
        \A k \in Keys :
            (InBoth(k) /\ (DisagreeOn(k, "PM2.5_ATM_ug/m3")
                           \/ DisagreeOn(k, "PM2.5_CF1_ug/m3")))
            => ~HasRecord(k)

\* The records of the same sensor within the 24 hours that end at record i.
Window(df, i) ==
    {j \in DOMAIN df :
        /\ df[j].Sensor = df[i].Sensor
        /\ df[j].DateTime_UTC <= df[i].DateTime_UTC
        /\ df[j].DateTime_UTC > df[i].DateTime_UTC - 86400}

RECURSIVE SumAtm(_, _)
SumAtm(df, J) ==
    IF J = {} THEN 0
    ELSE LET j == CHOOSE x \in J : TRUE
         IN  df[j].val["PM2.5_ATM_ug/m3"][1] + SumAtm(df, J \ {j})

RollingMean(df, i) == SumAtm(df, Window(df, i)) \div Cardinality(Window(df, i))

\* C3: every output row's Ipm25 is calc_aqi of the trailing 24-hour rolling
\* mean of that sensor's averaged PM2.5 ATM, not of the row's own value.
C3_Ipm25IsRollingMean ==
    pc = "combined" =>
        \A i \in DOMAIN df_filtered :
            df_filtered[i].Ipm25 = CalcAqi(RollingMean(df_filtered, i))

\* C9: in every output row each paired column equals the arithmetic mean of
\* the row's channel A value and channel B value.
C9_PairedColumnsAreMeans ==
    pc = "combined" =>
        \A k \in Keys : HasRecord(k) =>
            \A i \in DOMAIN df_filtered :
                (df_filtered[i].Sensor = k[1]
                 /\ df_filtered[i].DateTime_UTC = SlotSeconds * k[2]) =>
                    /\ \A c \in PrimaryPaired :
                         /\ ~IsNaN(grids.pa[k].v[c])
                         /\ ~IsNaN(grids.pb[k].v[c])
                         /\ df_filtered[i].val[c] =
                              <<(grids.pa[k].v[c][1] + grids.pb[k].v[c][1]) \div 2>>
                    /\ \A c \in SecondaryPaired :
                         /\ ~IsNaN(grids.sa[k].v[c])
                         /\ ~IsNaN(grids.sb[k].v[c])
                         /\ df_filtered[i].val[c] =
                              <<(grids.sa[k].v[c][1] + grids.sb[k].v[c][1]) \div 2>>

OnlyOneOf(k, A, B) == (k \in Present(A)) # (k \in Present(B))

\* C10: a (sensor, slot) with a row in only one of the channel grids A and B,
\* primary or secondary, is not in the joined table and has no output record.
C10_OneChannelRowsNeverJoined ==
    pc # "aggregated" =>
        \A k \in Keys :
            (OnlyOneOf(k, grids.pa, grids.pb) \/ OnlyOneOf(k, grids.sa, grids.sb))
            => (k \notin joined /\ ~HasRecord(k))

\* A run that wrote its output while some slot had a primary row in channel A
\* only and another had a secondary row in channel B only.
C10_Witness ==
    /\ pc = "combined"
    /\ Len(df_filtered) > 0
    /\ \E k \in Keys : k \in Present(grids.pa) /\ k \notin Present(grids.pb)
    /\ \E k \in Keys : k \in Present(grids.sb) /\ k \notin Present(grids.sa)

----------------------------------------------------------------------------
(* Properties of summarize's interval guard (SpecSum)                      *)

\* C6: with a parsed summary interval and an inferred native interval, a
\* request of at most the native interval exits with none of the summary
\* outputs written, and a strictly greater one goes on to resample.
C6_IntervalGuard ==
    (guard.done /\ guard.n > 0) =>
        /\ guard.sec * guard.n <= guard.sum =>
              (pc = "exit" /\ written \cap AllSummaryFiles = {})
        /\ guard.sec * guard.n > guard.sum => pc = "summarized"

\* A request equal to the native five minutes was stopped.
C6_Witness ==
    /\ guard.done
    /\ guard.n > 0
    /\ guard.sec = 300
    /\ guard.sum = 300 * guard.n
    /\ pc = "exit"
    /\ written \cap AllSummaryFiles = {}

----------------------------------------------------------------------------
(* Properties of calc_aqi (SpecAqi)                                        *)

\* The published breakpoints, <<Ilow, Ihigh, Clow, Chigh>> with the
\* concentrations in tenths of a ug/m3.
Breakpoints ==
    { <<0, 50, 0, 120>>, <<51, 100, 121, 354>>, <<101, 150, 355, 554>>,
      <<151, 200, 555, 1504>>, <<201, 300, 1505, 2504>>,
      <<301, 500, 2505, 5004>> }

\* C4: for a concentration with one decimal place in [0, 500.4] the result is
\* a non-negative integer inside the index range of the category holding the
\* concentration; a category's lower and upper concentration bounds map to
\* its Ilow and Ihigh, so 12.0 gives at most 50 and 12.1 at least 51.
C4_IndexWithinCategory ==
    (pc = "returned" /\ pm % 10 = 0 /\ pm >= 0 /\ pm <= 50040) =>
        /\ ipm >= 0
        /\ \E b \in Breakpoints :
              /\ b[3] <= pm \div 10
              /\ pm \div 10 <= b[4]
              /\ b[1] <= ipm
              /\ ipm <= b[2]
              /\ (pm \div 10 = b[3] => ipm = b[1])
              /\ (pm \div 10 = b[4] => ipm = b[2])
        /\ (pm = 1200 => ipm <= 50)
        /\ (pm = 1210 => ipm >= 51)

\* 12.1 ug/m3, the first concentration of the moderate category, gave 51.
C4_Witness == pc = "returned" /\ pm = 1210 /\ ipm = 51

\* C5 as stated: the result is in [0, 500] for every input, the 'beyond'
\* category included.
C5_IndexAtMost500 == pc = "returned" => (ipm >= 0 /\ ipm <= 500)

\* C5 amended: the result is never negative; it is at most 500 for every
\* concentration below 501.1, and above 500 from 501.1 on, where the 'beyond'
\* category continues the hazardous line.
C5_IndexBoundedBelowBeyond ==
    pc = "returned" =>
        /\ ipm >= 0
        /\ (pm < 50110 => ipm <= 500)
        /\ (pm >= 50110 => ipm > 500)

\* 600.0 ug/m3 gave 579.
C5_Witness == pc = "returned" /\ pm = 60000 /\ ipm = 579

----------------------------------------------------------------------------
(* Properties of the start of a run (Spec)                                 *)

\* C2: a non-empty file whose name parse_path cannot parse is loaded under
\* the fallback identifier and the run continues: the run never exits on the
\* empty coordinates the fallback returns.
C2_FallbackContinues ==
    \A f \in filesRead :
        (~f.empty /\ parse_path(csv_full_path \o f.name, csv_full_path).fallback)
        => ~(pc = "exit" /\ diag.detail = "could not convert string to float: ''")

\* The inputs a command line requires that the directory lacks.
RequiredMissing(a, d) ==
    \/ {f \in d.files : f.name \in GlobbedPrimary} = {}
    \/ a.reference /\ "REF_25" \notin d.others
    \/ a.wind /\ ("REF_wd" \notin d.others \/ "REF_ws" \notin d.others)
    \/ a.darksky /\ "DSKY" \notin d.others

\* C7: whatever the combination of -r, -w and -k, when a required input is
\* missing the run exits before combine_primary reads or writes any file.
C7_MissingInputsStopRun ==
    RequiredMissing(args, dir) =>
        /\ filesRead = {}
        /\ written = {}
        /\ pc \in {"start", "exit"}

\* The headers by which a file's header set differs from its family's
\* canonical set.
Differing(f) ==
    LET canon == Canonical[CHOOSE fam \in DOMAIN Globbed : f.name \in Globbed[fam]]
    IN  (f.headers \ canon) \cup (canon \ f.headers)

\* C8: once a non-empty file whose header set differs from the canonical one
\* has been read, the run has failed with a diagnostic that lists the
\* differing headers.
C8_HeaderMismatchStops ==
    \A f \in filesRead :
        (~f.empty /\ Differing(f) # {})
        => (pc = "exit" /\ Differing(f) \subseteq diag.names)

----------------------------------------------------------------------------
(* Further properties of calc_aqi (SpecAqi)                                *)

\* C11: calc_aqi cuts its input to one decimal place toward zero before it
\* selects a category and clamps a negative input to zero: every negative
\* concentration gives 0, and a concentration c >= 0 gives what floor(10c)/10
\* gives (12.09 gives the 50 of 12.0, not the 51 of 12.1).
C11_TruncatesAndClamps ==
    pc = "returned" =>
        /\ (pm < 0 => ipm = 0)
        /\ (pm >= 0 => ipm = CalcAqi(10 * (pm \div 10)))
        /\ (pm = 1209 => ipm = 50)

\* 12.09 ug/m3 gave 50.
C11_Witness == pc = "returned" /\ pm = 1209 /\ ipm = 50

----------------------------------------------------------------------------
(* Further properties of combine_primary's tables (SpecData)               *)

\* The keys that pass the channel filter.
Survivors == ChannelFilter(grids, JoinedKeys(grids))

RecordsOf(k) ==
    {i \in DOMAIN df_filtered :
        /\ df_filtered[i].Sensor = k[1]
        /\ df_filtered[i].DateTime_UTC = SlotSeconds * k[2]}

\* C12: a missing (NaN) concentration mean does not abort the run: a row
\* that passes the filter with a NaN averaged PM2.5 ATM is in the output
\* with Ipm25 = 0.
C12_MissingMeanGivesZero ==
    pc # "aggregated" =>
        \A k \in Survivors :
            IsNaN(Averages(grids, k)["PM2.5_ATM_ug/m3"]) =>
                /\ pc = "combined"
                /\ RecordsOf(k) # {}
                /\ \A i \in RecordsOf(k) : df_filtered[i].Ipm25 = 0

----------------------------------------------------------------------------
(* Further properties of a run (Spec)                                      *)

C14_FullFileWrittenAndRunGoesOn ==
    ("combined_full_ab.csv" \in written
     /\ args.full /\ ~args.reference /\ ~args.wind)
    => (pc = "combined" /\ "combined_full.csv" \in written)

----------------------------------------------------------------------------
(* Properties of summarize's interval inference (SpecSum)                  *)

\* The rows of the frame whose delta is taken within one sensor: the row
\* before is a row of the same sensor.
SameSensor(df) == {i \in 2..Len(df) : df[i].Sensor = df[i - 1].Sensor}

\* sum and count of the values of f over a set of positions
RECURSIVE SumOver(_, _)
SumOver(f, P) ==
    IF P = {} THEN 0
    ELSE LET i == CHOOSE j \in P : TRUE IN f[i] + SumOver(f, P \ {i})

\* The two-pass trimmed mean of the deltas d at the positions P, as [sum, n].
TrimmedMean(d, P) ==
    LET P1 == {i \in P : 10 <= d[i] /\ d[i] <= 36000}
        s1 == SumOver(d, P1)
        n1 == Cardinality(P1)
        P2 == {i \in P1 : 10 <= d[i] /\ 5 * d[i] * n1 <= 6 * s1}
    IN  [sum |-> SumOver(d, P2), n |-> Cardinality(P2)]

\* The delta of every row of the frame that is not the first
RowDelta(df) ==
    [i \in 1..Len(df) |-> IF i = 1 THEN 0 ELSE df[i].DateTime_UTC - df[i - 1].DateTime_UTC]

\* C19: the inferred native interval is made of the deltas between
\* consecutive rows of the same sensor only; the delta between the last row
\* of one sensor and the first row of the next never contributes.
C19_DeltasWithinOneSensor ==
    guard.done =>
        LET iv == TrimmedMean(RowDelta(df_filtered), SameSensor(df_filtered))
        IN  guard.sum = iv.sum /\ guard.n = iv.n

\* The deltas the code takes: those of the rows that are not reference rows.
NonRef(df) == {i \in 1..Len(df) : ~IsRef(df[i].Sensor)}

\* The deltas of the first pass, 10 <= d <= 36000
FirstPass(df) == {i \in NonRef(df) : 10 <= RowDelta(df)[i] /\ RowDelta(df)[i] <= 36000}

\* C20: the inferred native interval is the mean of the deltas d of the
\* first pass (10 <= d <= 36000, mean m1) that also have 10 <= d <= 1.2 * m1,
\* and it is this second mean the requested interval is compared with.
C20_TwoPassTrimmedMean ==
    guard.done =>
        LET iv == TrimmedMean(RowDelta(df_filtered), NonRef(df_filtered))
        IN  /\ guard.sum = iv.sum
            /\ guard.n = iv.n
            /\ iv.n > 0 =>
                  (diag.msg = "error! selected summary interval < sensor data interval"
                      <=> guard.sec * iv.n <= iv.sum)

\* Deltas of 300 and 1500 seconds: the first mean is 900, the second pass
\* drops 1500 > 1080, and a request of 600 seconds passes the guard.
C20_Witness ==
    /\ guard.done
    /\ Cardinality(FirstPass(df_filtered)) = 2
    /\ SumOver(RowDelta(df_filtered), FirstPass(df_filtered)) = 1800
    /\ guard.sum = 300
    /\ guard.n = 1
    /\ guard.sec = 600
    /\ pc = "summarized"

----------------------------------------------------------------------------
(* Properties of the reference station and of the summary rows (SpecRef)   *)

\* The names of the files a run writes, but for the station file.
OutputNames ==
    { <<"c", "o", "m", "b", "i", "n", "e", "d", "_", "f", "u", "l", "l", ".", "c", "s", "v">>,
      <<"c", "o", "m", "b", "i", "n", "e", "d", "_", "f", "u", "l", "l", "_", "a", "b", ".", "c", "s", "v">>,
      <<"c", "o", "m", "b", "i", "n", "e", "d", "_", "s", "u", "m", "m", "a", "r", "i", "z", "e", "d", "_", "c", "s", "v", ".", "c", "s", "v">>,
      <<"c", "o", "m", "b", "i", "n", "e", "d", "_", "s", "u", "m", "m", "a", "r", "i", "z", "e", "d", "_", "x", "l", ".", "x", "l", "s", "x">>,
      <<"c", "o", "m", "b", "i", "n", "e", "d", "_", "s", "u", "m", "m", "a", "r", "i", "z", "e", "d", "_", "r", "e", "t", "i", "g", "o", ".", "c", "s", "v">>,
      <<"c", "o", "m", "b", "i", "n", "e", "d", "_", "s", "u", "m", "m", "a", "r", "i", "z", "e", "d", "_", "s", "o", "u", "r", "c", "e", ".", "c", "s", "v">>,
      <<"s", "e", "n", "s", "o", "r", "_", "s", "t", "a", "t", "s", ".", "c", "s", "v">> }

\* The glob patterns the run finds its input files with.
DiscoveryPatterns ==
    {Pattern[fam] : fam \in DOMAIN Pattern}
    \cup {AnyPrimary, RefPattern,
          [word |-> <<>>, suffix |-> <<"R", "E", "F", "_", "2", "5", ".", "c", "s", "v">>],
          [word |-> <<>>, suffix |-> <<"R", "E", "F", "_", "w", "d", ".", "c", "s", "v">>],
          [word |-> <<>>, suffix |-> <<"R", "E", "F", "_", "w", "s", ".", "c", "s", "v">>],
          [word |-> <<"D", "S", "K", "Y">>, suffix |-> <<".", "c", "s", "v">>]}

\* The input files of the directory, by name
InputNames ==
    {f.name : f \in dir.files} \cup {f.name : f \in ref_files.ref}

\* The files in the directory after the run, by name
NamesAfter ==
    InputNames \cup OutputNames
    \cup (IF station_merged.exists THEN {station_merged.name} ELSE {})

\* C15: no file a run writes is found by a file-discovery pattern of the next
\* run: each pattern finds, after the run, the input files it found before,
\* so that the next run reads what this one read.
C15_OutputsAreNotInputs ==
    \A pat \in DiscoveryPatterns :
        {n \in NamesAfter : Matches(n, pat)} = {n \in InputNames : Matches(n, pat)}

\* A run with -r and -f that wrote the station file, combined_full.csv and
\* the summary files.
C15_Witness ==
    /\ pc = "summarized"
    /\ station_merged.exists
    /\ station_merged.name \notin InputNames
    /\ {"combined_full.csv", "combined_summarized_csv.csv"} \subseteq written

\* The timestamps every reference file of the directory has a row for
RefTimes == MergedTimes(ref_files.ref)

InDateRange(t) == date_range.min_date[1] <= t /\ t <= date_range.max_date[1]

\* C16: every timestamp t of the reference files is in the station file and
\* in the combined table as t + 8 hours, in January as in July.
C16_FixedEightHours ==
    station_merged.exists =>
        /\ \A r \in station_merged.rows :
              \E t \in RefTimes : r.DateTime_UTC = t + 8 * Hour
        /\ \A t \in RefTimes :
              InDateRange(t + 8 * Hour) =>
                  \E r \in station_merged.rows : r.DateTime_UTC = t + 8 * Hour
        /\ \A i \in 1..Len(df_filtered) :
              IsRef(df_filtered[i].Sensor) =>
                  \E t \in RefTimes : df_filtered[i].DateTime_UTC = t + 8 * Hour

\* A reference row of July 1, 2020, 01:00 UTC, read as June 30, 17:00.
C16_Witness ==
    /\ pc = "referenced"
    /\ 182 * Day - 7 * Hour \in RefTimes
    /\ \E r \in station_merged.rows : r.DateTime_UTC = 182 * Day + Hour
    /\ \E i \in 1..Len(df_filtered) :
          IsRef(df_filtered[i].Sensor) /\ df_filtered[i].DateTime_UTC = 182 * Day + Hour

\* The records of the combined table a summary row stands for: those of its
\* sensor inside its interval.
RecordsUnder(r) ==
    {i \in 1..Len(df_filtered) :
        /\ df_filtered[i].Sensor = r.Sensor
        /\ r.DateTime <= df_filtered[i].DateTime_UTC
        /\ df_filtered[i].DateTime_UTC < r.DateTime + guard.sec}

Pm25(df) == [i \in 1..Len(df) |-> df[i].val["PM2.5_ATM_ug/m3"][1]]

\* C17: each summary row starts a requested interval, has a PM2.5 ATM
\* concentration, and that concentration is the mean of the records of the
\* row's own sensor inside the interval; each sensor has a row for each
\* interval it has a record in.
C17_RowsArePerSensorMeans ==
    pc = "summarized" =>
        /\ \A r \in df3 :
              /\ r.DateTime % guard.sec = 0
              /\ ~IsNaN(r.val["PM2.5_ATM_ug/m3"])
              /\ RecordsUnder(r) # {}
              /\ r.val["PM2.5_ATM_ug/m3"][1] =
                    SumOver(Pm25(df_filtered), RecordsUnder(r))
                        \div Cardinality(RecordsUnder(r))
        /\ \A i \in 1..Len(df_filtered) :
              \E r \in df3 : i \in RecordsUnder(r)

\* Two sensors with two records each in the same hour, 10.25 and 50.10 on
\* average, and a reference station whose empty intervals gave no row.
C17_Witness ==
    /\ pc = "summarized"
    /\ \E r1, r2 \in df3 :
          /\ r1.Sensor = "S1" /\ r2.Sensor = "S2"
          /\ r1.DateTime = r2.DateTime
          /\ Cardinality(RecordsUnder(r1)) = 2
          /\ Cardinality(RecordsUnder(r2)) = 2
          /\ r1.val["PM2.5_ATM_ug/m3"] = <<1025>>
          /\ r2.val["PM2.5_ATM_ug/m3"] = <<5010>>
    /\ guard.sec = 600
    /\ Cardinality({r \in df3 : IsRef(r.Sensor)}) = 2

RetigoWritten == "combined_summarized_retigo.csv" \in written

\* Whether a summary row has what the RETIGO file asks of a row
Complete(r) ==
    /\ ~IsNaN(r.Lon)
    /\ ~IsNaN(r.Lat)
    /\ (args.wind \/ args.darksky) => ~IsNaN(r.WindSpeed)

\* C18: every row of combined_summarized_retigo.csv has a longitude and a
\* latitude and, with -w or -k, a wind magnitude; the rows of the file are
\* the summary rows that have them.
C18_RetigoRowsAreComplete ==
    (pc = "summarized" /\ RetigoWritten) =>
        /\ \A row \in retigo :
              /\ ~IsNaN(row.EAST_LONGITUDE)
              /\ ~IsNaN(row.NORTH_LATITUDE)
              /\ (args.wind \/ args.darksky) => ~IsNaN(row.wind_magnitude)
        /\ \A r \in df3 :
              Complete(r) <=>
                  \E row \in retigo : row.ID = r.Sensor /\ row.Timestamp = r.DateTime

\* A run with -w in which the station had no wind speed for one hour: the
\* summary rows of that hour are not in the file, those of the other are.
C18_Witness ==
    /\ pc = "summarized"
    /\ RetigoWritten
    /\ args.wind /\ ~args.darksky
    /\ \E r \in df3 : IsNaN(r.WindSpeed)
    /\ retigo # {}


----------------------------------------------------------------------------
(* C30: calc_aqi is monotone                                               *)

\* C30: over the non-negative concentrations calc_aqi never decreases: the
\* result for a concentration is at least the result one hundredth and one
\* tenth of a ug/m3 below it, across every category boundary and across
\* 500.4 / 500.5 into 'beyond_aqi'; and no number, negative ones included,
\* takes the final else branch of the category chain.
C30_MonotoneAndTotal ==
    pc = "returned" =>
        /\ AqiCat(Truncate(pm)) # "none"
        /\ ipm >= 0
        /\ (pm >= 1 => CalcAqi(pm - 1) <= ipm)
        /\ (pm >= 10 => CalcAqi(pm - 10) <= ipm)
        /\ (pm = 1210 => CalcAqi(1200) = 50 /\ ipm = 51)
        /\ (pm = 50050 => CalcAqi(50040) = 500 /\ ipm = 500)

\* 500.5 ug/m3, the first concentration of 'beyond_aqi', gave the 500 that
\* 500.4 gives.
C30_Witness ==
    /\ pc = "returned"
    /\ pm = 50050
    /\ ipm = 500
    /\ AqiCat(Truncate(pm)) = "beyond_aqi"
    /\ AqiCat(Truncate(pm - 10)) = "hazardous"

----------------------------------------------------------------------------
(* C22: the date range combine_primary returns                             *)

\* The timestamps of the reconciled table df_filtered.
FilteredTimes == {df_filtered[i].DateTime_UTC : i \in DOMAIN df_filtered}

\* C22: when combine_primary returns, min_date is the earliest timestamp of
\* the reconciled table floored to the hour and max_date is its latest
\* timestamp raised to the hour.
C22_DateRangeOfReconciledTable ==
    (pc = "combined" /\ Len(df_filtered) > 0) =>
        date_range = DateRange(FilteredTimes)

----------------------------------------------------------------------------
(* C29: the Ipm25 of a summary row                                         *)

\* The Ipm25 of each record of the table summarize is given.
Ipm25Of(df) == [i \in 1..Len(df) |-> df[i].Ipm25]

\* C29: the Ipm25 of a summary row is the mean of the Ipm25 of the records
\* of the row's sensor inside the row's interval with its fraction cut off;
\* calc_aqi is not applied to the row's mean concentration.
C29_Ipm25IsTruncatedMean ==
    pc = "summarized" =>
        \A r \in df3 :
            /\ RecordsUnder(r) # {}
            /\ r.Ipm25 = SumOver(Ipm25Of(df_filtered), RecordsUnder(r))
                            \div Cardinality(RecordsUnder(r))

\* An hour in which a sensor's two records have the indices 42 and 137 got
\* 89 for their mean 89.5, and the reference station's row of 18.00 ug/m3
\* got the 57 of its record (the index of the rolling mean 15.00), not the 63
\* calc_aqi gives for 18.00.
C29_Witness ==
    /\ pc = "summarized"
    /\ \E r \in df3 :
          /\ ~IsRef(r.Sensor)
          /\ {df_filtered[i].Ipm25 : i \in RecordsUnder(r)} = {42, 137}
          /\ r.Ipm25 = 89
    /\ \E r \in df3 :
          /\ IsRef(r.Sensor)
          /\ r.val["PM2.5_ATM_ug/m3"] = <<1800>>
          /\ r.Ipm25 = 57
          /\ CalcAqi(r.val["PM2.5_ATM_ug/m3"][1]) = 63

----------------------------------------------------------------------------
(* C28: combine_reference needs both wind files                            *)

\* The columns the reference files of the directory give the merged table.
RefColumns == {ref_val(f.name) : f \in {g \in ref_files.ref : Matches(g.name, RefPattern)}}

\* A listed station has a concentration file but not both wind files.
ConcentrationWithoutWind ==
    /\ "PM2.5_ATM_ug/m3" \in RefColumns
    /\ ~({"WindDirection", "WindSpeed"} \subseteq RefColumns)
    /\ \A f \in ref_files.ref : StationKey(sensor_name(f.name)) # ""

\* C28: with -r or -w, combine_reference returns only if the merged table
\* has the columns WindDirection and WindSpeed.  With -r, a concentration
\* file and not both wind files, once combine_reference has run the station
\* file is written, the run has ended in combine_reference, the reconciled
\* table has no reference row and no summary file is written.
C28_ReferenceNeedsWindFiles ==
    /\ ((args.reference \/ args.wind) /\ pc \in {"referenced", "summarized"}) =>
          {"WindDirection", "WindSpeed"} \subseteq RefColumns
    /\ (args.reference /\ ConcentrationWithoutWind /\ pc # "combined") =>
          /\ pc = "exit"
          /\ diag = RefError("KeyError")
          /\ station_merged.exists
          /\ \E f \in ref_files.ref :
                station_merged.name = ref_output_filename(sensor_name(f.name))
          /\ written \cap AllSummaryFiles = {}
          /\ df3 = {}
          /\ \A i \in 1..Len(df_filtered) : ~IsRef(df_filtered[i].Sensor)

\* A run with -r over NORCO_REF_25.csv alone ended in combine_reference with
\* NORCO_station_merged.csv written, holding a row of concentrations.
C28_Witness ==
    /\ args.reference
    /\ ConcentrationWithoutWind
    /\ RefColumns = {"PM2.5_ATM_ug/m3"}
    /\ pc = "exit"
    /\ diag = RefError("KeyError")
    /\ station_merged.exists
    /\ station_merged.name = Norco \o station_merged_csv
    /\ station_merged.rows # {}

----------------------------------------------------------------------------
(* C27: a sensor file family is absent                                     *)

\* No file of the directory matches the pattern of one of the four families.
FamilyAbsent(d) == \E fam \in {"pa", "pb", "sa", "sb"} : FamilyFiles(d, fam) = {}

\* C27: a run that passes the input checks with one of the four sensor file
\* families absent ends inside combine_primary: the step from the checks
\* leads to the exit of combine_primary's except clause, and no step leads to
\* a state where combine_primary has built or returned its table.
C27_AbsentFamilyEndsInCombinePrimary ==
    [][/\ (pc = "proceed" /\ FamilyAbsent(dir)) =>
              /\ pc' = "exit"
              /\ diag'.msg = "error in combine_primary() function"
       /\ FamilyAbsent(dir') => pc' \notin {"aggregated", "combined"}]_vars

\* A directory with Primary A, Primary B and Secondary A files but no
\* Secondary B file passed input_files_check and ended in combine_primary.
C27_Witness ==
    /\ pc = "exit"
    /\ diag.msg = "error in combine_primary() function"
    /\ diag.detail = "required csv files not found"
    /\ FamilyFiles(dir, "sb") = {}
    /\ \A fam \in {"pa", "pb", "sa"} : FamilyFiles(dir, fam) # {}
    /\ filesRead # {}

----------------------------------------------------------------------------
(* C25, C26: summary arguments the interval guard is meant to stop         *)

\* The units get_summary_interval has a length for.
KnownUnits ==
    {<<"W">>, <<"D">>, <<"H">>, <<"m", "i", "n">>, <<"T">>, <<"S">>}

\* A summary argument with no leading number, or whose unit is not known.
Malformed(summary) ==
    \/ summary = <<>>
    \/ summary[1] \notin Digits
    \/ SubSeq(summary, Len(FirstRun(summary, TRUE)) + 1, Len(summary)) \notin KnownUnits

\* C25: a run whose summary argument has no leading number or a unit other
\* than W, D, H, min, T, S never writes a summary file (stated for the runs
\* whose reconciled table has a row).
C25_MalformedSummaryWritesNothing ==
    (Malformed(args.summary) /\ Len(df_filtered) > 0) =>
        written \cap AllSummaryFiles = {}

\* C26: every timestamp of the reconciled table is on the 5-minute grid, so
\* an inferred native interval is at least 300 seconds, and where one is
\* inferred a summary interval of 300 seconds or less ends the run at the
\* interval guard.
C26_GridBoundsNativeInterval ==
    /\ \A i \in 1..Len(df_filtered) : df_filtered[i].DateTime_UTC % SlotSeconds = 0
    /\ (guard.done /\ guard.n > 0) =>
          /\ guard.sum >= SlotSeconds * guard.n
          /\ guard.sec <= SlotSeconds =>
                /\ pc = "exit"
                /\ diag.msg = "error! selected summary interval < sensor data interval"
                /\ written \cap AllSummaryFiles = {}

\* A sensor reporting every 25 minutes (inferred interval 1500 s) asked for
\* 1-minute summaries was stopped at the guard.
C26_Witness ==
    /\ pc = "exit"
    /\ args.summary = <<"1", "m", "i", "n">>
    /\ guard.done
    /\ guard.sec = 60
    /\ guard.n > 0
    /\ guard.sum = 1500 * guard.n
    /\ diag.msg = "error! selected summary interval < sensor data interval"

----------------------------------------------------------------------------
(* C24: the seconds of a summary argument                                  *)

\* The length of a unit in seconds.
UnitSeconds(u) ==
    CASE u = <<"W">> -> 7 * 24 * 3600
      [] u = <<"D">> -> 24 * 3600
      [] u = <<"H">> -> 3600
      [] u = <<"m", "i", "n">> -> 60
      [] u = <<"T">> -> 60
      [] u = <<"S">> -> 1

\* C24: for a count n and a unit among W, D, H, min, T, S,
\* get_summary_interval returns the length of n units in seconds: n times
\* 604800, 86400, 3600, 60, 60, 1.
C24_TrueSeconds ==
    pc = "interval_returned" =>
        \A n \in 1..MaxCount, u \in SummaryUnits :
            args.summary = Numeral(n) \o u => guard.sec = n * UnitSeconds(u)

\* C24 without the week: the days, hours, minutes and seconds are right.
C24_TrueSecondsBelowAWeek ==
    pc = "interval_returned" =>
        \A n \in 1..MaxCount, u \in SummaryUnits \ {<<"W">>} :
            args.summary = Numeral(n) \o u => guard.sec = n * UnitSeconds(u)

----------------------------------------------------------------------------
(* C21: the renaming depends on the set of header names only               *)

RECURSIVE Reverse(_)
Reverse(q) == IF q = <<>> THEN <<>> ELSE Reverse(Tail(q)) \o <<Head(q)>>

\* C21: the renaming made for a header is the one its set of names gives,
\* whatever the order of the columns: it is the renaming of the same header
\* read backwards and of the list it is a reordering of, it gives each name
\* the canonical name at the name's place among the sorted names, and it is
\* the identity when the names are the canonical ones.
C21_RenamingIgnoresOrder ==
    pc = "renamed" =>
        /\ DOMAIN rename_columns = Range(actual_fieldnames)
        /\ \A h \in Range(actual_fieldnames) :
              rename_columns[h] = fieldnames_dict(Range(actual_fieldnames), pa_version4_a, h)
        /\ rename_columns =
              dict_zip(sorted(Reverse(actual_fieldnames)), sorted(pa_version4_a_list))
        /\ \A base \in {pa_version4_a_list, renamed_list} :
              Range(base) = Range(actual_fieldnames) =>
                  rename_columns = dict_zip(sorted(base), sorted(pa_version4_a_list))
        /\ Range(actual_fieldnames) = pa_version4_a =>
              \A h \in pa_version4_a : rename_columns[h] = h

\* A file whose header has the canonical names with entry_id before
\* created_at and the two last columns exchanged was given the identity.
C21_Witness ==
    /\ pc = "renamed"
    /\ Range(actual_fieldnames) = pa_version4_a
    /\ actual_fieldnames[1] = "entry_id"
    /\ actual_fieldnames[2] = "created_at"
    /\ actual_fieldnames[9] = "PM2.5_ATM_ug/m3"
    /\ actual_fieldnames[10] = "Humidity_%"
    /\ \A h \in pa_version4_a : rename_columns[h] = h

----------------------------------------------------------------------------
(* C23: the rows of the 5-minute aggregation                               *)

\* C23: the aggregated table of a channel has a row for a sensor and a
\* 5-minute slot if and only if a source row of that sensor falls in the
\* slot; a slot with no source row between the sensor's first and last
\* observation has no row.
C23_RowsOnlyForObservedSlots ==
    pc = "resampled" =>
        \A s \in Sensors, k \in 0..MaxAggSlot :
            (\E row \in resampled :
                row.Sensor = s /\ row.DateTime_UTC = SlotSeconds * k)
            <=> (\E r \in concatenated :
                    r.Sensor = s /\ BinOf(r.DateTime_UTC, SlotSeconds) = SlotSeconds * k)

\* C23 for what does hold: every slot with a source row has a row with the
\* mean of its readings, every row without a source row lies between two
\* observed slots of its sensor and is null-filled.
C23_EmptySlotsAreNullRows ==
    pc = "resampled" =>
        /\ \A r \in concatenated :
              \E row \in resampled :
                 /\ row.Sensor = r.Sensor
                 /\ row.DateTime_UTC = BinOf(r.DateTime_UTC, SlotSeconds)
                 /\ ~IsNaN(row.pm25)
        /\ \A row \in resampled :
              IsNaN(row.pm25) <=>
                 ~\E r \in concatenated :
                     /\ r.Sensor = row.Sensor
                     /\ BinOf(r.DateTime_UTC, SlotSeconds) = row.DateTime_UTC
        /\ \A row \in resampled :
              \E r1, r2 \in concatenated :
                 /\ r1.Sensor = row.Sensor /\ r2.Sensor = row.Sensor
                 /\ BinOf(r1.DateTime_UTC, SlotSeconds) <= row.DateTime_UTC
                 /\ row.DateTime_UTC <= BinOf(r2.DateTime_UTC, SlotSeconds)

====
